---- MODULE Spec2Model ----
(***************************************************************************)
(* Model of the compile orchestration of node-latex-compiler: the          *)
(* TectonicCompiler class (constructor, compile, executeCompilation,       *)
(* getTempPdfPath, ensureDirectoryExists), getTempDir, the executable      *)
(* resolver and the convenience compile() of index.js.                     *)
(*                                                                         *)
(* The file system is a function from absolute paths to entries; a path is *)
(* a sequence of name records [base, ext], so that path.basename,          *)
(* path.extname, path.dirname and path.join are computed on the path       *)
(* itself.  The subprocess is the environment: it may emit chunks, write   *)
(* its output file, close with any exit code or raise an error event.      *)
(***************************************************************************)
EXTENDS Integers, Sequences, FiniteSets, TLC

VARIABLES
  fs,        \* the file system: [absolute path -> entry]
  locked,    \* paths whose removal the operating system refuses (EPERM)
  host,      \* [platform, arch, which]: os.platform(), os.arch(), PATH lookup
  now,       \* the value Date.now() returns
  calls,     \* the compile calls of this run
  pc,        \* per call: "idle", "awaiting", "settled"
  config,    \* per call: the config object passed to compile
  frame,     \* per call: the local variables of compile that live across the await
  child,     \* per call: the subprocess and the closure state of executeCompilation
  settled,   \* per call: what the caller receives
  trace      \* per call: observations of the call (history, not program state)

vars == <<fs, locked, host, now, calls, pc, config, frame, child, settled, trace>>

----------------------------------------------------------------------------
(* Bounds of the model                                                      *)

\* the largest value Date.now() returns
MaxClock == 1
\* the number of chunks the subprocesses of a run emit on their streams together
MaxChunks == 2

----------------------------------------------------------------------------
(* Paths: the path module                                                   *)

Name(b, e) == [base |-> b, ext |-> e]

\* the first segment of a relative path
Dot == Name(".", "")

Cwd == <<Name("cwd", "")>>
PkgRoot == <<Name("pkg", "")>>

IsRelative(p) == Len(p) > 0 /\ p[1] = Dot

\* path.resolve(p): an absolute path is returned as it is, a relative one is
\* resolved against process.cwd()
resolve(p) == IF IsRelative(p) THEN Cwd \o Tail(p) ELSE p

\* path.join(dir, name)
join(dir, n) == Append(dir, n)

\* path.dirname(p)
dirname(p) == IF Len(p) <= 1 THEN p ELSE SubSeq(p, 1, Len(p) - 1)

\* path.extname(p)
extname(p) == p[Len(p)].ext

\* path.basename(p, path.extname(p))
basename(p) == p[Len(p)].base

\* tempPdfPath.startsWith(dir)
startsWith(p, dir) == Len(dir) <= Len(p) /\ SubSeq(p, 1, Len(dir)) = dir

----------------------------------------------------------------------------
(* The file system: the fs module                                           *)

Dir == [kind |-> "dir", data |-> "", mode |-> "755"]
File(d) == [kind |-> "file", data |-> d, mode |-> "644"]

Prefixes(p) == {SubSeq(p, 1, k) : k \in 1..Len(p)}

IsDirIn(f, q) == q = <<>> \/ (q \in DOMAIN f /\ f[q].kind = "dir")
IsFileIn(f, q) == q \in DOMAIN f /\ f[q].kind = "file"

\* every entry lies in a directory
WellFormed(f) == \A q \in DOMAIN f : IsDirIn(f, dirname(q)) \/ Len(q) = 1

Without(f, q) == [x \in (DOMAIN f) \ {q} |-> f[x]]

\* fs.existsSync(p): false when a component of p is missing or is a file
existsSync(f, p) == resolve(p) \in DOMAIN f

\* the error a path lookup raises when the parent of q is not a directory
ParentError(f, q) ==
  IF \E a \in Prefixes(dirname(q)) : IsFileIn(f, a) THEN "ENOTDIR" ELSE "ENOENT"

\* fs.mkdirSync(p, { recursive: true })
mkdirSync(f, p) ==
  LET q == resolve(p) IN
  IF \E a \in Prefixes(q) : IsFileIn(f, a)
    THEN [err |-> IF IsFileIn(f, q) THEN "EEXIST" ELSE "ENOTDIR", fs |-> f]
    ELSE [err |-> "",
          fs |-> [x \in (DOMAIN f) \cup Prefixes(q) |->
                    IF x \in DOMAIN f THEN f[x] ELSE Dir]]

\* fs.writeFileSync(p, data)
writeFileSync(f, p, d) ==
  LET q == resolve(p) IN
  IF ~IsDirIn(f, dirname(q)) THEN [err |-> ParentError(f, q), fs |-> f]
  ELSE IF IsDirIn(f, q) THEN [err |-> "EISDIR", fs |-> f]
  ELSE [err |-> "", fs |-> (q :> File(d)) @@ f]

\* fs.readFileSync(p)
readFileSync(f, p) ==
  LET q == resolve(p) IN
  IF q \notin DOMAIN f THEN [err |-> "ENOENT", data |-> ""]
  ELSE IF f[q].kind = "dir" THEN [err |-> "EISDIR", data |-> ""]
  ELSE [err |-> "", data |-> f[q].data]

\* fs.unlinkSync(p)
unlinkSync(f, lk, p) ==
  LET q == resolve(p) IN
  IF q \notin DOMAIN f THEN [err |-> "ENOENT", fs |-> f]
  ELSE IF f[q].kind = "dir" THEN [err |-> "EISDIR", fs |-> f]
  ELSE IF q \in lk THEN [err |-> "EPERM", fs |-> f]
  ELSE [err |-> "", fs |-> Without(f, q)]

\* fs.renameSync(from, to), for a file
renameSync(f, lk, from, to) ==
  LET a == resolve(from)
      b == resolve(to) IN
  IF a \notin DOMAIN f THEN [err |-> "ENOENT", fs |-> f]
  ELSE IF ~IsDirIn(f, dirname(b)) THEN [err |-> ParentError(f, b), fs |-> f]
  ELSE IF IsDirIn(f, b) THEN [err |-> "EISDIR", fs |-> f]
  ELSE IF a \in lk THEN [err |-> "EPERM", fs |-> f]
  ELSE IF a = b THEN [err |-> "", fs |-> f]
  ELSE [err |-> "", fs |-> (b :> f[a]) @@ Without(f, a)]

\* fs.chmodSync(p, 0o755)
chmodSync(f, lk, p) ==
  LET q == resolve(p) IN
  IF q \notin DOMAIN f THEN [err |-> "ENOENT", fs |-> f]
  ELSE IF q \in lk THEN [err |-> "EPERM", fs |-> f]
  ELSE [err |-> "", fs |-> [f EXCEPT ![q].mode = "755"]]

\* fs.readdirSync(dir): the names of the entries of dir
readdirSync(f, dir) == {q[Len(q)] : q \in {x \in DOMAIN f : Len(x) = Len(dir) + 1 /\ startsWith(x, dir)}}

----------------------------------------------------------------------------
(* The executable resolver: lib/platform-resolver                           *)

\* a path that is null
NoPath == <<>>

Archs == {"x64", "arm64"}

\* what follows `${platform}-` in the names of the directories of bin/
BinSuffixes == Archs \cup {"universal"}

getRuntimePackageName(platform, arch) ==
  IF platform = "win32" /\ arch = "x64" THEN "@node-latex-compiler/bin-win32-x64"
  ELSE IF platform = "darwin" /\ arch = "x64" THEN "@node-latex-compiler/bin-darwin-x64"
  ELSE IF platform = "darwin" /\ arch = "arm64" THEN "@node-latex-compiler/bin-darwin-arm64"
  ELSE IF platform = "linux" /\ arch = "x64" THEN "@node-latex-compiler/bin-linux-x64"
  ELSE ""

getExecutableName(platform) ==
  IF platform = "win32" THEN Name("tectonic", "exe") ELSE Name("tectonic", "")

\* the normalisation of os.arch() at the head of resolveBundledTectonic
NormalizeArch(arch) ==
  IF arch = "x86_64" \/ arch = "amd64" THEN "x64"
  ELSE IF arch = "aarch64" THEN "arm64"
  ELSE arch

BinDir(platform, arch) ==
  join(join(PkgRoot, Name("bin", "")), Name(platform \o "-" \o arch, ""))

\* the directory of an installed helper package below node_modules
HelperDir(pkgName) ==
  join(join(PkgRoot, Name("node_modules", "")), Name(pkgName, ""))

\* the try { chmodSync } catch { } return path idiom: the path is returned
\* whether or not the mode could be set
Selected(f, lk, platform, p) ==
  [path |-> p,
   fs |-> IF platform # "win32" THEN chmodSync(f, lk, p).fs ELSE f]

resolveBundledTectonic(f, lk, h) ==
  LET platform == h.platform
      normalizedArch == NormalizeArch(h.arch)
      exeName == getExecutableName(platform)
      localTectonicPath == join(BinDir(platform, normalizedArch), exeName)
      altArch == IF normalizedArch = "x64" THEN "arm64" ELSE "x64"
      altLocalTectonicPath == join(BinDir(platform, altArch), exeName)
      binBasePath == join(PkgRoot, Name("bin", ""))
      candidates == {join(join(binBasePath, e), exeName) :
                       e \in {n \in readdirSync(f, binBasePath) :
                                \E a \in BinSuffixes \cup {h.arch} :
                                   n = Name(platform \o "-" \o a, "")}}
      found == {c \in candidates : existsSync(f, c)}
      pkgName == getRuntimePackageName(platform, normalizedArch)
      pkgPath == IF h.helper # NoPath THEN h.helper
                 ELSE IF existsSync(f, join(HelperDir(pkgName), Name("package", "json")))
                   THEN HelperDir(pkgName)
                 ELSE NoPath
      tectonicPath == join(join(pkgPath, Name("bin", "")), exeName)
  IN
  IF existsSync(f, localTectonicPath) THEN Selected(f, lk, platform, localTectonicPath)
  ELSE IF platform = "darwin" /\ existsSync(f, altLocalTectonicPath)
    THEN Selected(f, lk, "darwin", altLocalTectonicPath)
  ELSE IF existsSync(f, binBasePath) /\ found # {}
    THEN Selected(f, lk, platform, CHOOSE c \in found : TRUE)
  ELSE IF pkgName = "" THEN [path |-> NoPath, fs |-> f]
  ELSE IF pkgPath = NoPath THEN [path |-> NoPath, fs |-> f]
  ELSE IF existsSync(f, tectonicPath) THEN Selected(f, lk, platform, tectonicPath)
  ELSE [path |-> NoPath, fs |-> f]

\* `which tectonic` / `where tectonic`: h.which is the first line of the
\* output, NoPath when the lookup fails
findTectonicInPath(f, h) ==
  IF h.which # NoPath /\ existsSync(f, h.which) THEN h.which ELSE NoPath

\* resolveTectonicExecutable that consults the PATH before the bundled binary
resolveTectonicExecutable_PathFirst(f, lk, h, options) ==
  LET tectonicPath == resolve(options.tectonicPath)
      bundled == resolveBundledTectonic(f, lk, h)
  IN
  IF options.tectonicPath # NoPath /\ existsSync(f, tectonicPath)
    THEN Selected(f, lk, h.platform, tectonicPath)
  ELSE IF findTectonicInPath(f, h) # NoPath THEN [path |-> findTectonicInPath(f, h), fs |-> f]
  ELSE bundled

resolveTectonicExecutable(f, lk, h, options) ==
  LET tectonicPath == resolve(options.tectonicPath)
      bundled == resolveBundledTectonic(f, lk, h)
  IN
  IF options.tectonicPath # NoPath /\ existsSync(f, tectonicPath)
    THEN Selected(f, lk, h.platform, tectonicPath)
  ELSE IF bundled.path # NoPath THEN bundled
  ELSE [path |-> findTectonicInPath(f, h), fs |-> f]

\* Constructor that prefers a bundled binary to options.tectonicPath
Constructor_BundledFirst(f, lk, h, options) ==
  LET bundled == resolveBundledTectonic(f, lk, h) IN
  IF bundled.path # NoPath THEN bundled
  ELSE IF options.tectonicPath # NoPath
    THEN [path |-> options.tectonicPath, fs |-> f]
  ELSE [path |-> findTectonicInPath(f, h), fs |-> f]

\* new TectonicCompiler(options): tectonicPath, or NoPath when it throws
Constructor(f, lk, h, options) ==
  IF options.tectonicPath # NoPath
    THEN [path |-> options.tectonicPath, fs |-> f]
    ELSE resolveTectonicExecutable(f, lk, h, options)

\* index.js isAvailable(options): false when the constructor throws, else
\* compiler.isAvailable(), that is fs.existsSync(this.tectonicPath)
isAvailable(f, lk, h, options) ==
  LET ctor == Constructor(f, lk, h, options) IN
  ctor.path # NoPath /\ existsSync(ctor.fs, ctor.path)

----------------------------------------------------------------------------
(* TectonicCompiler.getVersion: the output of `tectonic --help` is a        *)
(* sequence of words separated by white space                               *)

\* toLowerCase, on the words that occur
Lower(w) == IF w = "Tectonic" THEN "tectonic" ELSE w

\* the word matches [\d.]+[\+\w-]*
IsVersionToken(w) == w \in {"0.15.0", "2.1"}

\* stdout || stderr: an empty string is falsy
JsOrText(a, b) == IF a = <<>> THEN b ELSE a

\* the positions where /tectonic[-\s]+([\d.]+[\+\w-]*)/i matches
VersionMatches(output) ==
  {i \in 1..(Len(output) - 1) :
     Lower(output[i]) = "tectonic" /\ IsVersionToken(output[i + 1])}

\* output.includes('tectonic'): case-sensitive
IncludesTectonic(output) == \E i \in 1..Len(output) : output[i] = "tectonic"

NullVersion == [isNull |-> TRUE, version |-> ""]

\* ParseVersion that answers with the first word of the output
ParseVersion_FirstWord(stdout, stderr) ==
  LET output == JsOrText(stdout, stderr) IN
  IF output = <<>> THEN NullVersion ELSE [isNull |-> FALSE, version |-> output[1]]

\* the callback of exec in getVersion, when exec reported no error
ParseVersion(stdout, stderr) ==
  LET output == JsOrText(stdout, stderr)
      m == VersionMatches(output)
      first == CHOOSE i \in m : \A j \in m : i <= j
  IN
  IF m # {} THEN [isNull |-> FALSE, version |-> output[first + 1]]
  ELSE IF IncludesTectonic(output) THEN [isNull |-> FALSE, version |-> "unknown"]
  ELSE NullVersion

\* index.js getVersion(options): null when the constructor throws or exec
\* reports an error, else what the callback makes of the output
getVersion(f, lk, h, options, outcome) ==
  LET ctor == Constructor(f, lk, h, options) IN
  IF ctor.path = NoPath THEN NullVersion
  ELSE IF outcome.error THEN NullVersion
  ELSE ParseVersion(outcome.stdout, outcome.stderr)

----------------------------------------------------------------------------
(* TectonicCompiler: the synchronous parts of compile                       *)

\* a || b on numbers: 0 is falsy
JsOr(a, b) == IF a = 0 THEN b ELSE a

\* executeCompilation has not resolved yet: result is still null
NoResult == [status |-> "none"]

TempDirPath == join(PkgRoot, Name("temp", ""))

\* getTempDir(): the path, after creating the directory when nothing exists there
getTempDir(f) ==
  IF ~existsSync(f, TempDirPath)
    THEN LET m == mkdirSync(f, TempDirPath) IN [err |-> m.err, path |-> TempDirPath, fs |-> m.fs]
    ELSE [err |-> "", path |-> TempDirPath, fs |-> f]

\* ensureDirectoryExists(dirPath)
ensureDirectoryExists(f, dirPath) ==
  IF ~existsSync(f, dirPath) THEN mkdirSync(f, dirPath) ELSE [err |-> "", fs |-> f]

\* getTempPdfPath that gives every source the same PDF name
getTempPdfPath_OneName(texPath, outputDir) == join(outputDir, Name("output", "pdf"))

\* getTempPdfPath(texPath, outputDir)
getTempPdfPath(texPath, outputDir) == join(outputDir, Name(basename(texPath), "pdf"))

\* `__temp_compile_${Date.now()}.tex`
TempTexName(t) == Name("__temp_compile_" \o ToString(t), "tex")

\* the locals of compile: what the try block has assigned when it throws or awaits
Locals(threw, f, tempTexPath, cleanup, tempDir, outputDir, finalPdfPath) ==
  [threw |-> threw, fs |-> f, tempTexPath |-> tempTexPath, shouldCleanupTemp |-> cleanup,
   compileOutputDir |-> tempDir, outputDir |-> outputDir, finalPdfPath |-> finalPdfPath]

\* DetermineOutput in which outputDir, when given, decides the final path
\* even if outputFile is given
DetermineOutput_DirFirst(f, cfg, tempDir, tempTexPath, cleanup) ==
  LET outputDir == IF cfg.outputDir # NoPath THEN cfg.outputDir
                   ELSE IF cfg.texFile # NoPath THEN dirname(cfg.texFile)
                   ELSE tempDir
      e == ensureDirectoryExists(f, outputDir)
      finalPdfPath == IF cfg.outputFile # NoPath /\ cfg.outputDir = NoPath
                        THEN resolve(cfg.outputFile)
                      ELSE join(outputDir, Name(basename(tempTexPath), "pdf"))
  IN
  IF e.err # ""
    THEN Locals(e.err, f, tempTexPath, cleanup, tempDir, NoPath, NoPath)
    ELSE Locals("", e.fs, tempTexPath, cleanup, tempDir, outputDir, finalPdfPath)

\* "Determine output path": outputDir, ensureDirectoryExists, finalPdfPath
DetermineOutput(f, cfg, tempDir, tempTexPath, cleanup) ==
  LET outputDir == IF cfg.outputDir # NoPath THEN cfg.outputDir
                   ELSE IF cfg.texFile # NoPath THEN dirname(cfg.texFile)
                   ELSE tempDir
      e == ensureDirectoryExists(f, outputDir)
      finalPdfPath == IF cfg.outputFile # NoPath THEN resolve(cfg.outputFile)
                      ELSE IF cfg.texFile # NoPath
                        THEN join(outputDir, Name(basename(cfg.texFile), "pdf"))
                      ELSE join(outputDir, Name(basename(tempTexPath), "pdf"))
  IN
  IF e.err # ""
    THEN Locals(e.err, f, tempTexPath, cleanup, tempDir, NoPath, NoPath)
    ELSE Locals("", e.fs, tempTexPath, cleanup, tempDir, outputDir, finalPdfPath)

\* DetermineInput without the final else: a request with no source is
\* compiled as an empty text
DetermineInput_NoSourceCheck(f, t, cfg, tempDir) ==
  IF cfg.texFile # NoPath THEN
    IF ~existsSync(f, cfg.texFile)
      THEN Locals("LaTeX file not found", f, NoPath, FALSE, tempDir, NoPath, NoPath)
      ELSE DetermineOutput(f, cfg, tempDir, cfg.texFile, FALSE)
  ELSE
    LET tempTexPath == join(tempDir, TempTexName(t))
        w == writeFileSync(f, tempTexPath, cfg.tex)
    IN IF w.err # ""
         THEN Locals(w.err, f, tempTexPath, FALSE, tempDir, NoPath, NoPath)
         ELSE DetermineOutput(w.fs, cfg, tempDir, tempTexPath, TRUE)

\* DetermineInput that names the generated source without writing it
DetermineInput_NoWrite(f, t, cfg, tempDir) ==
  IF cfg.texFile # NoPath THEN
    IF ~existsSync(f, cfg.texFile)
      THEN Locals("LaTeX file not found", f, NoPath, FALSE, tempDir, NoPath, NoPath)
      ELSE DetermineOutput(f, cfg, tempDir, cfg.texFile, FALSE)
  ELSE IF cfg.tex # "" THEN
    DetermineOutput(f, cfg, tempDir, join(tempDir, TempTexName(t)), TRUE)
  ELSE Locals("Either tex or texFile must be provided", f, NoPath, FALSE, tempDir, NoPath, NoPath)

\* DetermineInput that prefers tex to texFile
DetermineInput_TexFirst(f, t, cfg, tempDir) ==
  IF cfg.tex # "" THEN
    LET tempTexPath == join(tempDir, TempTexName(t))
        w == writeFileSync(f, tempTexPath, cfg.tex)
    IN IF w.err # ""
         THEN Locals(w.err, f, tempTexPath, FALSE, tempDir, NoPath, NoPath)
         ELSE DetermineOutput(w.fs, cfg, tempDir, tempTexPath, TRUE)
  ELSE IF cfg.texFile # NoPath THEN
    IF ~existsSync(f, cfg.texFile)
      THEN Locals("LaTeX file not found", f, NoPath, FALSE, tempDir, NoPath, NoPath)
      ELSE DetermineOutput(f, cfg, tempDir, cfg.texFile, FALSE)
  ELSE Locals("Either tex or texFile must be provided", f, NoPath, FALSE, tempDir, NoPath, NoPath)

\* DetermineInput without the existsSync test of texFile
DetermineInput_NoExistsCheck(f, t, cfg, tempDir) ==
  IF cfg.texFile # NoPath THEN DetermineOutput(f, cfg, tempDir, cfg.texFile, FALSE)
  ELSE IF cfg.tex # "" THEN
    LET tempTexPath == join(tempDir, TempTexName(t))
        w == writeFileSync(f, tempTexPath, cfg.tex)
    IN IF w.err # ""
         THEN Locals(w.err, f, tempTexPath, FALSE, tempDir, NoPath, NoPath)
         ELSE DetermineOutput(w.fs, cfg, tempDir, tempTexPath, TRUE)
  ELSE Locals("Either tex or texFile must be provided", f, NoPath, FALSE, tempDir, NoPath, NoPath)

\* "Determine input source": texFile is used as it is, tex is written to a
\* generated file of the temp directory
DetermineInput(f, t, cfg, tempDir) ==
  IF cfg.texFile # NoPath THEN
    IF ~existsSync(f, cfg.texFile)
      THEN Locals("LaTeX file not found", f, NoPath, FALSE, tempDir, NoPath, NoPath)
      ELSE DetermineOutput(f, cfg, tempDir, cfg.texFile, FALSE)
  ELSE IF cfg.tex # "" THEN
    LET tempTexPath == join(tempDir, TempTexName(t))
        w == writeFileSync(f, tempTexPath, cfg.tex)
    IN IF w.err # ""
         THEN Locals(w.err, f, tempTexPath, FALSE, tempDir, NoPath, NoPath)
         ELSE DetermineOutput(w.fs, cfg, tempDir, tempTexPath, TRUE)
  ELSE Locals("Either tex or texFile must be provided", f, NoPath, FALSE, tempDir, NoPath, NoPath)

\* the try block of compile up to the call of executeCompilation
CompileEntry(f, t, cfg) ==
  LET td == getTempDir(f) IN
  IF td.err # ""
    THEN Locals(td.err, f, NoPath, FALSE, NoPath, NoPath, NoPath)
    ELSE DetermineInput(td.fs, t, cfg, td.path)

\* DeliverBuffer that also reports the final path
DeliverBuffer_WithPath(f, lk, fr, result, tempPdfPath) ==
  LET rd == readFileSync(f, tempPdfPath)
      un == unlinkSync(f, lk, tempPdfPath)
  IN
  IF rd.err # "" THEN [threw |-> rd.err, value |-> NoResult, fs |-> f]
  ELSE IF tempPdfPath # fr.finalPdfPath /\ un.err # ""
    THEN [threw |-> un.err, value |-> NoResult, fs |-> f]
  ELSE [threw |-> "",
        value |-> [status |-> "success", pdfBuffer |-> rd.data, pdfPath |-> fr.finalPdfPath,
                   stdout |-> result.stdout, stderr |-> result.stderr],
        fs |-> IF tempPdfPath # fr.finalPdfPath THEN un.fs ELSE f]

\* DeliverBuffer that returns the PDF without its last character
DeliverBuffer_Truncated(f, lk, fr, result, tempPdfPath) ==
  LET rd == readFileSync(f, tempPdfPath)
      un == unlinkSync(f, lk, tempPdfPath)
  IN
  IF rd.err # "" THEN [threw |-> rd.err, value |-> NoResult, fs |-> f]
  ELSE IF tempPdfPath # fr.finalPdfPath /\ un.err # ""
    THEN [threw |-> un.err, value |-> NoResult, fs |-> f]
  ELSE [threw |-> "",
        value |-> [status |-> "success", pdfBuffer |-> "%PDF(",
                   stdout |-> result.stdout, stderr |-> result.stderr],
        fs |-> IF tempPdfPath # fr.finalPdfPath THEN un.fs ELSE f]

\* returnBuffer: read the PDF, remove it unless it is the final path
DeliverBuffer(f, lk, fr, result, tempPdfPath) ==
  LET rd == readFileSync(f, tempPdfPath)
      un == unlinkSync(f, lk, tempPdfPath)
  IN
  IF rd.err # "" THEN [threw |-> rd.err, value |-> NoResult, fs |-> f]
  ELSE IF tempPdfPath # fr.finalPdfPath /\ un.err # ""
    THEN [threw |-> un.err, value |-> NoResult, fs |-> f]
  ELSE [threw |-> "",
        value |-> [status |-> "success", pdfBuffer |-> rd.data,
                   stdout |-> result.stdout, stderr |-> result.stderr],
        fs |-> IF tempPdfPath # fr.finalPdfPath THEN un.fs ELSE f]

\* DeliverFile that copies the PDF to the final path and leaves the one in
\* the temp directory
DeliverFile_Copy(f, lk, fr, result, tempPdfPath) ==
  LET rd == readFileSync(f, tempPdfPath)
      cp == writeFileSync(f, fr.finalPdfPath, rd.data)
  IN
  IF tempPdfPath # fr.finalPdfPath /\ cp.err # ""
    THEN [threw |-> cp.err, value |-> NoResult, fs |-> f]
  ELSE [threw |-> "",
        value |-> [status |-> "success", pdfPath |-> fr.finalPdfPath,
                   stdout |-> result.stdout, stderr |-> result.stderr],
        fs |-> IF tempPdfPath # fr.finalPdfPath THEN cp.fs ELSE f]

\* "Move/rename to final path"
DeliverFile(f, lk, fr, result, tempPdfPath) ==
  LET unFinal == IF existsSync(f, fr.finalPdfPath)
                   THEN unlinkSync(f, lk, fr.finalPdfPath) ELSE [err |-> "", fs |-> f]
      mv == renameSync(unFinal.fs, lk, tempPdfPath, fr.finalPdfPath)
  IN
  IF tempPdfPath # fr.finalPdfPath /\ unFinal.err # ""
    THEN [threw |-> unFinal.err, value |-> NoResult, fs |-> f]
  ELSE IF tempPdfPath # fr.finalPdfPath /\ mv.err # ""
    THEN [threw |-> mv.err, value |-> NoResult, fs |-> unFinal.fs]
  ELSE [threw |-> "",
        value |-> [status |-> "success", pdfPath |-> fr.finalPdfPath,
                   stdout |-> result.stdout, stderr |-> result.stderr],
        fs |-> IF tempPdfPath # fr.finalPdfPath THEN mv.fs ELSE f]

\* the branch of "Handle output" taken when executeCompilation reported success
DeliverPdf(f, lk, cfg, fr, result) ==
  LET tempPdfPath == getTempPdfPath(fr.tempTexPath, fr.compileOutputDir) IN
  IF existsSync(f, tempPdfPath) THEN
    IF cfg.returnBuffer
      THEN DeliverBuffer(f, lk, fr, result, tempPdfPath)
      ELSE DeliverFile(f, lk, fr, result, tempPdfPath)
  ELSE [threw |-> "",
        value |-> [status |-> "failed", exitCode |-> JsOr(result.exitCode, -1),
                   error |-> "PDF file was not generated",
                   stdout |-> result.stdout, stderr |-> result.stderr],
        fs |-> f]

\* HandleOutput without the test of result.status
HandleOutput_NoStatusCheck(f, lk, cfg, fr, result) ==
  DeliverPdf(f, lk, cfg, fr, result)

\* "Handle output": the try block of compile after the await
HandleOutput(f, lk, cfg, fr, result) ==
  IF result.status = "success"
    THEN DeliverPdf(f, lk, cfg, fr, result)
    ELSE [threw |-> "", value |-> result, fs |-> f]

\* CleanupTempTex that removes the source whoever wrote it
CleanupTempTex_Always(f, lk, fr) ==
  IF fr.tempTexPath # NoPath /\ existsSync(f, fr.tempTexPath)
    THEN unlinkSync(f, lk, fr.tempTexPath).fs
    ELSE f

\* CleanupTempTex that leaves the generated source in place
CleanupTempTex_Skipped(f, lk, fr) == f

\* the first statement of the finally block: remove the generated source;
\* an error of unlinkSync is caught and ignored
CleanupTempTex(f, lk, fr) ==
  IF fr.shouldCleanupTemp /\ fr.tempTexPath # NoPath /\ existsSync(f, fr.tempTexPath)
    THEN unlinkSync(f, lk, fr.tempTexPath).fs
    ELSE f

\* the second statement of the finally block: remove a PDF left in the temp
\* directory.  outputDir is a const of the try block and is not in scope
\* here: evaluating it raises a ReferenceError
CleanupTempPdf(f, lk, cfg, fr, result) ==
  LET td == getTempDir(f)
      tempPdfPath == getTempPdfPath(fr.tempTexPath, td.path)
      finalPdfPath == IF cfg.outputFile # NoPath THEN resolve(cfg.outputFile) ELSE NoPath
  IN
  IF result.status = "success" /\ fr.tempTexPath # NoPath THEN
    IF td.err # "" THEN [threw |-> td.err, fs |-> f]
    ELSE IF existsSync(td.fs, tempPdfPath) THEN
      IF cfg.outputFile = NoPath /\ cfg.texFile # NoPath
        THEN [threw |-> "ReferenceError: outputDir is not defined", fs |-> td.fs]
      ELSE IF finalPdfPath # NoPath /\ tempPdfPath # finalPdfPath
              /\ startsWith(tempPdfPath, getTempDir(td.fs).path)
        THEN [threw |-> "", fs |-> unlinkSync(td.fs, lk, tempPdfPath).fs]
      ELSE [threw |-> "", fs |-> td.fs]
    ELSE [threw |-> "", fs |-> td.fs]
  ELSE [threw |-> "", fs |-> f]

\* the finally block of compile
Finally(f, lk, cfg, fr, result) ==
  CleanupTempPdf(CleanupTempTex(f, lk, fr), lk, cfg, fr, result)

\* what a call that went through the try block and the finally block gives
\* its caller: an exception of the finally block replaces the body's outcome
Rejected(msg) == [kind |-> "rejected", error |-> msg]
Resolved(v) == [kind |-> "resolved", value |-> v]
Pending == [kind |-> "pending"]

Settle(bodyThrew, bodyValue, finallyThrew) ==
  IF finallyThrew # "" THEN Rejected(finallyThrew)
  ELSE IF bodyThrew # "" THEN Rejected(bodyThrew)
  ELSE Resolved(bodyValue)

----------------------------------------------------------------------------
(* The inputs and the initial environments                                  *)

WorkDir == <<Name("work", "")>>
WorkTex == join(WorkDir, Name("doc", "tex"))
MissingTex == join(WorkDir, Name("gone", "tex"))
ScratchTex == join(TempDirPath, Name("doc", "tex"))
StalePdf == join(TempDirPath, Name("doc", "pdf"))

OutDir == <<Name("out", "")>>
NestedDir == join(OutDir, Name("sub", ""))
OutFile == join(OutDir, Name("final", "pdf"))
RelFile == <<Dot, Name("rel", "pdf")>>
DeepFile == join(join(<<Name("deep", "")>>, Name("er", "")), Name("final", "pdf"))

CustomExe == join(<<Name("opt", "")>>, Name("tectonic", ""))
MissingExe == join(<<Name("opt", "")>>, Name("missing", ""))
BundledExe == join(BinDir("linux", "x64"), Name("tectonic", ""))

Sources == {[tex |-> "", texFile |-> NoPath],
            [tex |-> "good", texFile |-> NoPath],
            [tex |-> "", texFile |-> WorkTex],
            [tex |-> "", texFile |-> MissingTex],
            [tex |-> "", texFile |-> ScratchTex],
            [tex |-> "good", texFile |-> WorkTex]}

Config(s, d, o, b, cb, x) ==
  [tex |-> s.tex, texFile |-> s.texFile, outputDir |-> d, outputFile |-> o,
   returnBuffer |-> b, onStdout |-> cb, onStderr |-> cb, tectonicPath |-> x]

\* every combination of source, output directory, output file and output
\* kind; observers and an executable override on the plain requests
Configs ==
  {Config(s, d, o, b, FALSE, NoPath) :
     s \in Sources \ {[tex |-> "good", texFile |-> WorkTex]}, d \in {NoPath, OutDir, NestedDir, TempDirPath},
     o \in {NoPath, OutFile, RelFile, DeepFile}, b \in BOOLEAN}
  \cup
  {Config(s, NoPath, NoPath, b, cb, x) :
     s \in {[tex |-> "good", texFile |-> NoPath], [tex |-> "", texFile |-> WorkTex],
            [tex |-> "good", texFile |-> WorkTex]},
     b \in BOOLEAN, cb \in BOOLEAN, x \in {NoPath, CustomExe, MissingExe}}

EmptyFs == [q \in {} |-> Dir]

BaseFs ==
  (PkgRoot :> Dir) @@ (Cwd :> Dir) @@ (WorkDir :> Dir) @@ (WorkTex :> File("good"))
  @@ (<<Name("opt", "")>> :> Dir) @@ (CustomExe :> File("exe"))

BundledFs ==
  (join(PkgRoot, Name("bin", "")) :> Dir) @@ (BinDir("linux", "x64") :> Dir)
  @@ (BundledExe :> File("exe"))

TempStates ==
  {EmptyFs,
   TempDirPath :> File("not a directory"),
   (TempDirPath :> Dir) @@ (ScratchTex :> File("good")),
   (TempDirPath :> Dir) @@ (ScratchTex :> File("good")) @@ (StalePdf :> File("stale"))}

OutStates ==
  {EmptyFs,
   OutDir :> File("not a directory"),
   (OutDir :> Dir) @@ (OutFile :> File("old"))}

\* the paths the operating system may refuse to remove
Lockable == {join(TempDirPath, TempTexName(t)) : t \in 0..MaxClock}
            \cup {getTempPdfPath(join(TempDirPath, TempTexName(t)), TempDirPath) : t \in 0..MaxClock}
            \cup {StalePdf}

Environments ==
  {[fs |-> BaseFs @@ b @@ t @@ o, locked |-> {}] :
     b \in {EmptyFs, BundledFs}, t \in TempStates, o \in OutStates}
  \cup
  {[fs |-> BaseFs @@ BundledFs @@ (TempDirPath :> Dir) @@ (ScratchTex :> File("good"))
           @@ (OutDir :> Dir) @@ (OutFile :> File("old")),
    locked |-> l] :
     l \in {{q \in Lockable : extname(q) = "tex"}, {q \in Lockable : extname(q) = "pdf"}}}

Hosts == {[platform |-> "linux", arch |-> "x64", which |-> NoPath, helper |-> NoPath]}

ExitCodes == {0, 1}

\* what the compiler writes for a source
Pdf(src) == "%PDF(" \o src \o ")"

----------------------------------------------------------------------------
(* The state machine                                                        *)

NoChild ==
  [state |-> "none", cmd |-> [exe |-> NoPath, texPath |-> NoPath, outdir |-> NoPath],
   stdout |-> "", stderr |-> "", nOut |-> 0, nErr |-> 0,
   resolved |-> FALSE, result |-> NoResult, wrote |-> FALSE,
   hasOutput |-> FALSE, timer |-> "off"]

NoFrame == Locals("", EmptyFs, NoPath, FALSE, NoPath, NoPath, NoPath)

\* what is recorded about a call, for the properties below:
\*   entered      a compiler was constructed and its compile method was entered
\*   spawned      the number of subprocesses the call started
\*   created      the generated source file the call wrote, if any
\*   srcMissing   texFile was given and did not exist when the call began
\*   blockedOut   outputDir was given and it, or an ancestor, was a plain file then
\*   blockedTemp  the temp directory path was a plain file then
\*   body         the outcome of the try block, before the finally block ran
\*   first        the event that resolved executeCompilation: "close" or "error"
\*   exit         the exit code the close event carried
\*   pdfAtExit    the predicted PDF existed when the close event fired
\*   before       the paths that existed when the call began
\*   destWas      the content of the file at the final destination then, if
\*                there was one: <<content>>, else <<>>
\*   sentOut/Err  the text the subprocess wrote to its stdout / stderr
\*   chunksOut/Err  the chunks the subprocess emitted on each stream, in order
\*   seenOut/Err  the arguments of the calls of each observer, in order
\*   lateOut/Err  the chunks that arrived after the call had settled
\*   lateEvents   the close and error events that fired after the call had settled
NoTrace ==
  [entered |-> FALSE, spawned |-> 0, created |-> NoPath, srcMissing |-> FALSE,
   blockedOut |-> FALSE, blockedTemp |-> FALSE, body |-> Pending,
   first |-> "none", exit |-> 0, pdfAtExit |-> FALSE, before |-> {},
   destWas |-> <<>>,
   sentOut |-> "", sentErr |-> "", chunksOut |-> <<>>, chunksErr |-> <<>>,
   seenOut |-> <<>>, seenErr |-> <<>>,
   lateOut |-> <<>>, lateErr |-> <<>>, lateEvents |-> <<>>]

Init ==
  /\ \E e \in Environments : fs = e.fs /\ locked = e.locked
  /\ host \in Hosts
  /\ now = 0
  /\ calls = {1}
  /\ pc = [c \in calls |-> "idle"]
  /\ config = [c \in calls |-> CHOOSE cfg \in Configs : TRUE]
  /\ frame = [c \in calls |-> NoFrame]
  /\ child = [c \in calls |-> NoChild]
  /\ settled = [c \in calls |-> Pending]
  /\ trace = [c \in calls |-> NoTrace]

\* Spawn that hands the caller's output directory to --outdir
Spawn_IntoOutputDir(exe, fr) ==
  [NoChild EXCEPT !.state = "running",
                  !.cmd = [exe |-> exe, texPath |-> fr.tempTexPath, outdir |-> fr.outputDir]]

\* no other call waits to resume: the continuation of an await runs as soon
\* as the handler that resolved its promise returns, before the event loop
\* runs other code of this process
Quiescent(c) ==
  \A d \in calls \ {c} : ~(pc[d] = "awaiting" /\ child[d].resolved)

\* executeCompilation: the command line exec() is given
Spawn(exe, fr) ==
  [NoChild EXCEPT !.state = "running",
                  !.cmd = [exe |-> exe, texPath |-> fr.tempTexPath, outdir |-> fr.compileOutputDir]]

\* index.js compile(config): createCompiler(config), then compiler.compile(config)
\* up to its await, or to its rejection.  t is what Date.now() returns if the
\* call reads the clock: the clock never runs backwards
Compile(c, cfg, t) ==
  LET ctor == Constructor(fs, locked, host, cfg)
      fr == CompileEntry(ctor.fs, t, cfg)
      fin == Finally(fr.fs, locked, cfg, fr, NoResult)
      made == IF fr.shouldCleanupTemp THEN fr.tempTexPath ELSE NoPath
      seen == [trace[c] EXCEPT
                 !.entered = TRUE,
                 !.created = made,
                 !.srcMissing = cfg.texFile # NoPath /\ ~existsSync(fs, cfg.texFile),
                 !.blockedOut = cfg.outputDir # NoPath
                                /\ \E a \in Prefixes(resolve(cfg.outputDir)) : IsFileIn(fs, a),
                 !.blockedTemp = IsFileIn(fs, TempDirPath),
                 !.before = DOMAIN fs,
                 !.destWas = IF fr.finalPdfPath # NoPath /\ IsFileIn(fs, fr.finalPdfPath)
                               THEN <<fs[fr.finalPdfPath].data>> ELSE <<>>]
  IN
  /\ pc[c] = "idle"
  /\ Quiescent(c)
  /\ t >= now
  /\ t = now \/ (ctor.path # NoPath /\ fr.tempTexPath # NoPath /\ cfg.texFile = NoPath)
  /\ now' = t
  /\ config' = [config EXCEPT ![c] = cfg]
  /\ IF ctor.path = NoPath THEN
       /\ settled' = [settled EXCEPT ![c] = Rejected("Tectonic executable not found")]
       /\ pc' = [pc EXCEPT ![c] = "settled"]
       /\ fs' = ctor.fs
       /\ trace' = [trace EXCEPT ![c].body = Rejected("Tectonic executable not found"),
                                 ![c].before = DOMAIN fs]
       /\ UNCHANGED <<frame, child>>
     ELSE IF fr.threw # "" THEN
       /\ settled' = [settled EXCEPT ![c] = Settle(fr.threw, NoResult, fin.threw)]
       /\ pc' = [pc EXCEPT ![c] = "settled"]
       /\ fs' = fin.fs
       /\ frame' = [frame EXCEPT ![c] = [fr EXCEPT !.fs = EmptyFs]]
       /\ trace' = [trace EXCEPT ![c] = [seen EXCEPT !.body = Rejected(fr.threw)]]
       /\ UNCHANGED child
     ELSE
       /\ pc' = [pc EXCEPT ![c] = "awaiting"]
       /\ fs' = fr.fs
       /\ frame' = [frame EXCEPT ![c] = [fr EXCEPT !.fs = EmptyFs]]
       /\ child' = [child EXCEPT ![c] = Spawn(ctor.path, fr)]
       /\ trace' = [trace EXCEPT ![c] = [seen EXCEPT !.spawned = @ + 1]]
       /\ UNCHANGED settled
  /\ UNCHANGED <<locked, host, calls>>

\* the number of chunks the subprocesses of the calls in S have emitted
RECURSIVE ChunksOf(_)
ChunksOf(S) ==
  IF S = {} THEN 0
  ELSE LET c == CHOOSE x \in S : TRUE
       IN child[c].nOut + child[c].nErr + ChunksOf(S \ {c})

\* the k-th chunk of a run, on a stream: every chunk is a different text
Chunk(stream, k) == stream \o ToString(k) \o ";"

\* the call has settled: what its subprocess does now comes after the outcome
Late(c) == pc[c] = "settled"

\* the stream handlers of the subprocess can run: it is running and the
\* call awaits it, or the call has settled on an error event and the
\* subprocess has not closed yet
Listening(c) ==
  \/ pc[c] = "awaiting" /\ child[c].state = "running"
  \/ pc[c] = "settled" /\ child[c].state = "errored"

\* OnStdout that puts the chunk in front of the accumulated text
OnStdout_Prepend(c, text) ==
  /\ pc[c] = "awaiting"
  /\ Quiescent(c)
  /\ child[c].state = "running"
  /\ ChunksOf(calls) < MaxChunks
  /\ child' = [child EXCEPT ![c].stdout = text \o @, ![c].nOut = @ + 1]
  /\ trace' = [trace EXCEPT ![c].sentOut = @ \o text,
                            ![c].chunksOut = Append(@, text),
                            ![c].seenOut = IF config[c].onStdout THEN Append(@, text) ELSE @]
  /\ UNCHANGED <<fs, locked, host, now, calls, pc, config, frame, settled>>

\* child.stdout.on('data'): accumulate, then call the observer if there is one
OnStdout(c, text) ==
  /\ Listening(c)
  /\ Quiescent(c)
  /\ ChunksOf(calls) < MaxChunks
  /\ child' = [child EXCEPT ![c].stdout = @ \o text, ![c].nOut = @ + 1]
  /\ trace' = [trace EXCEPT ![c].sentOut = IF Late(c) THEN @ ELSE @ \o text,
                            ![c].chunksOut = IF Late(c) THEN @ ELSE Append(@, text),
                            ![c].lateOut = IF Late(c) THEN Append(@, text) ELSE @,
                            ![c].seenOut = IF config[c].onStdout THEN Append(@, text) ELSE @]
  /\ UNCHANGED <<fs, locked, host, now, calls, pc, config, frame, settled>>

\* child.stderr.on('data')
OnStderr(c, text) ==
  /\ Listening(c)
  /\ Quiescent(c)
  /\ ChunksOf(calls) < MaxChunks
  /\ child' = [child EXCEPT ![c].stderr = @ \o text, ![c].nErr = @ + 1]
  /\ trace' = [trace EXCEPT ![c].sentErr = IF Late(c) THEN @ ELSE @ \o text,
                            ![c].chunksErr = IF Late(c) THEN @ ELSE Append(@, text),
                            ![c].lateErr = IF Late(c) THEN Append(@, text) ELSE @,
                            ![c].seenErr = IF config[c].onStderr THEN Append(@, text) ELSE @]
  /\ UNCHANGED <<fs, locked, host, now, calls, pc, config, frame, settled>>

\* the subprocess writes <outdir>/<base name of its input>.pdf
ChildWritesPdf(c) ==
  LET cmd == child[c].cmd
      src == readFileSync(fs, cmd.texPath)
      w == writeFileSync(fs, getTempPdfPath(cmd.texPath, cmd.outdir), Pdf(src.data))
  IN
  /\ pc[c] = "awaiting"
  /\ child[c].state = "running"
  /\ ~child[c].wrote
  /\ src.err = ""
  /\ w.err = ""
  /\ fs' = w.fs
  /\ child' = [child EXCEPT ![c].wrote = TRUE]
  /\ UNCHANGED <<locked, host, now, calls, pc, config, frame, settled, trace>>

\* a promise that takes the value of the latest resolve()
ResolveOnce_Last(ch, result) ==
  [ch EXCEPT !.resolved = TRUE, !.result = result]

\* a promise whose resolve() does nothing
ResolveOnce_Never(ch, result) == ch

\* the promise of executeCompilation is resolved once: a later resolve() is ignored
ResolveOnce(ch, result) ==
  IF ch.resolved THEN ch ELSE [ch EXCEPT !.resolved = TRUE, !.result = result]

\* CloseResult with the two accumulators exchanged
CloseResult_Swapped(code, stdout, stderr) ==
  IF code = 0
    THEN [status |-> "success", exitCode |-> 0, stdout |-> stderr, stderr |-> stdout]
    ELSE [status |-> "failed", exitCode |-> code, stdout |-> stderr, stderr |-> stdout]

\* what the close handler resolves the promise with
CloseResult(code, stdout, stderr) ==
  IF code = 0
    THEN [status |-> "success", exitCode |-> 0, stdout |-> stdout, stderr |-> stderr]
    ELSE [status |-> "failed", exitCode |-> code, stdout |-> stdout, stderr |-> stderr]

\* ErrorResult that reports exit code 0
ErrorResult_ZeroCode(message, stdout, stderr) ==
  [status |-> "failed", exitCode |-> 0, error |-> message,
   stdout |-> stdout, stderr |-> stderr]

\* ErrorResult that reports a success
ErrorResult_Success(message, stdout, stderr) ==
  [status |-> "success", exitCode |-> 0, stdout |-> stdout, stderr |-> stderr]

\* what the error handler resolves the promise with
ErrorResult(message, stdout, stderr) ==
  [status |-> "failed", exitCode |-> -1, error |-> message,
   stdout |-> stdout, stderr |-> stderr]

\* child.on('close')
OnClose(c, code) ==
  LET ch == child[c]
      result == CloseResult(code, ch.stdout, ch.stderr)
  IN
  /\ pc[c] = "awaiting" \/ Late(c)
  /\ Quiescent(c)
  /\ ch.state \in {"running", "errored"}
  /\ child' = [child EXCEPT ![c] = [ResolveOnce(ch, result) EXCEPT !.state = "closed"]]
  /\ trace' = [trace EXCEPT ![c].first = IF ch.resolved THEN @ ELSE "close",
                            ![c].exit = IF ch.resolved THEN @ ELSE code,
                            ![c].pdfAtExit =
                               IF ch.resolved THEN @
                               ELSE existsSync(fs, getTempPdfPath(ch.cmd.texPath, ch.cmd.outdir)),
                            ![c].lateEvents = IF Late(c) THEN Append(@, "close") ELSE @]
  /\ UNCHANGED <<fs, locked, host, now, calls, pc, config, frame, settled>>

\* child.on('error')
OnError(c) ==
  LET ch == child[c]
      result == ErrorResult("spawn failed", ch.stdout, ch.stderr)
  IN
  /\ \/ pc[c] = "awaiting" /\ ch.state = "running"
     \/ Late(c) /\ ch.state = "closed" /\ trace[c].lateEvents = <<>>
  /\ Quiescent(c)
  /\ child' = [child EXCEPT ![c] = [ResolveOnce(ch, result) EXCEPT
                                      !.state = IF Late(c) THEN "closed" ELSE "errored"]]
  /\ trace' = [trace EXCEPT ![c].first = IF ch.resolved THEN @ ELSE "error",
                            ![c].lateEvents = IF Late(c) THEN Append(@, "error") ELSE @]
  /\ UNCHANGED <<fs, locked, host, now, calls, pc, config, frame, settled>>

\* compile resumes after the await: "Handle output", then the finally block
Resume(c) ==
  LET result == child[c].result
      out == HandleOutput(fs, locked, config[c], frame[c], result)
      fin == Finally(out.fs, locked, config[c], frame[c], result)
  IN
  /\ pc[c] = "awaiting"
  /\ child[c].resolved
  /\ fs' = fin.fs
  /\ settled' = [settled EXCEPT ![c] = Settle(out.threw, out.value, fin.threw)]
  /\ trace' = [trace EXCEPT ![c].body =
                 IF out.threw # "" THEN Rejected(out.threw) ELSE Resolved(out.value)]
  /\ pc' = [pc EXCEPT ![c] = "settled"]
  /\ UNCHANGED <<locked, host, now, calls, config, frame, child>>

Next ==
  \/ \E c \in calls, cfg \in Configs, t \in 0..MaxClock : Compile(c, cfg, t)
  \/ \E c \in calls : OnStdout(c, Chunk("out", ChunksOf(calls)))
  \/ \E c \in calls : OnStderr(c, Chunk("err", ChunksOf(calls)))
  \/ \E c \in calls : ChildWritesPdf(c)
  \/ \E c \in calls, code \in ExitCodes : OnClose(c, code)
  \/ \E c \in calls : OnError(c)
  \/ \E c \in calls : Resume(c)

Spec == Init /\ [][Next]_vars

----------------------------------------------------------------------------
(* The functions of the public interface that do not compile: the resolver, *)
(* isAvailable and getVersion, each applied once to an installation drawn   *)
(* from the combinations of platform, architecture and installed binaries   *)

Platforms == {"linux", "darwin", "win32"}

\* the values of os.arch()
HostArchs == {"x64", "arm64", "amd64"}

UsrExe == join(<<Name("usr", "")>>, Name("tectonic", ""))

\* where require.resolve finds a helper package outside this package
GlobalPkg == join(<<Name("usr", "")>>, Name("helper", ""))

\* file p, with the directories above it
AddFile(f, p) == writeFileSync(mkdirSync(f, dirname(p)).fs, p, "exe").fs

AddIf(cond, f, p) == IF cond THEN AddFile(f, p) ELSE f

\* the binaries an installation may have
Installable == {"primary", "alt", "universal", "nodeModules", "global", "path", "override"}

\* the file system of an installation: what is the set of binaries present
InstalledFs(h, what) ==
  LET exeName == getExecutableName(h.platform)
      arch == NormalizeArch(h.arch)
      other == IF arch = "x64" THEN "arm64" ELSE "x64"
      pkgName == getRuntimePackageName(h.platform, arch)
      f0 == (PkgRoot :> Dir) @@ (Cwd :> Dir)
      f1 == AddIf("primary" \in what, f0, join(BinDir(h.platform, arch), exeName))
      f2 == AddIf("alt" \in what, f1, join(BinDir(h.platform, other), exeName))
      f3 == AddIf("universal" \in what, f2, join(BinDir(h.platform, "universal"), exeName))
      f4 == IF "nodeModules" \in what /\ pkgName # ""
              THEN AddFile(AddFile(f3, join(HelperDir(pkgName), Name("package", "json"))),
                           join(join(HelperDir(pkgName), Name("bin", "")), exeName))
              ELSE f3
      f5 == AddIf("global" \in what, f4, join(join(GlobalPkg, Name("bin", "")), exeName))
      f6 == AddIf("path" \in what, f5, UsrExe)
  IN AddIf("override" \in what, f6, CustomExe)

ApiHosts ==
  {[platform |-> p, arch |-> a, which |-> w, helper |-> g] :
     p \in Platforms, a \in HostArchs, w \in {NoPath, UsrExe}, g \in {NoPath, GlobalPkg}}

Options(x) == Config([tex |-> "", texFile |-> NoPath], NoPath, NoPath, FALSE, FALSE, x)

InitApi ==
  /\ host \in ApiHosts
  /\ \E what \in SUBSET Installable : fs = InstalledFs(host, what)
  /\ locked = {}
  /\ now = 0
  /\ calls = {1}
  /\ pc = [c \in calls |-> "idle"]
  /\ config \in [calls -> {Options(x) : x \in {NoPath, CustomExe}}]
  /\ frame = [c \in calls |-> NoFrame]
  /\ child = [c \in calls |-> NoChild]
  /\ settled = [c \in calls |-> Pending]
  /\ trace = [c \in calls |-> NoTrace]

\* platformResolver.resolveTectonicExecutable(options)
Resolve(c) ==
  LET r == resolveTectonicExecutable(fs, locked, host, config[c]) IN
  /\ pc[c] = "idle"
  /\ fs' = r.fs
  /\ settled' = [settled EXCEPT ![c] = Resolved([op |-> "resolve", path |-> r.path])]
  /\ trace' = [trace EXCEPT ![c].before = DOMAIN fs]
  /\ pc' = [pc EXCEPT ![c] = "settled"]
  /\ UNCHANGED <<locked, host, now, calls, config, frame, child>>

\* index.js isAvailable(options)
IsAvailable(c) ==
  LET ctor == Constructor(fs, locked, host, config[c]) IN
  /\ pc[c] = "idle"
  /\ fs' = ctor.fs
  /\ settled' = [settled EXCEPT ![c] =
        Resolved([op |-> "isAvailable",
                  available |-> isAvailable(fs, locked, host, config[c])])]
  /\ trace' = [trace EXCEPT ![c].before = DOMAIN fs]
  /\ pc' = [pc EXCEPT ![c] = "settled"]
  /\ UNCHANGED <<locked, host, now, calls, config, frame, child>>

\* what `tectonic --help` may print on a stream
HelpTexts ==
  {<<>>, <<"Tectonic", "0.15.0", "usage">>, <<"usage", "tectonic", "2.1">>,
   <<"usage", "tectonic">>, <<"Tectonic", "usage">>, <<"0.15.0">>}

\* what exec hands to its callback: an error, or the text of the two streams
ExecOutcomes ==
  {[error |-> TRUE, stdout |-> <<>>, stderr |-> <<>>]}
  \cup {[error |-> FALSE, stdout |-> o, stderr |-> e] :
          o \in HelpTexts, e \in {<<>>, <<"tectonic", "2.1">>, <<"warning">>}}

\* index.js getVersion(options); a command whose executable does not exist
\* ends with an error
GetVersion(c, outcome) ==
  LET ctor == Constructor(fs, locked, host, config[c]) IN
  /\ pc[c] = "idle"
  /\ (ctor.path # NoPath /\ ~existsSync(ctor.fs, ctor.path)) => outcome.error
  /\ fs' = ctor.fs
  /\ settled' = [settled EXCEPT ![c] =
        Resolved([op |-> "getVersion", outcome |-> outcome,
                  version |-> getVersion(fs, locked, host, config[c], outcome)])]
  /\ trace' = [trace EXCEPT ![c].before = DOMAIN fs]
  /\ pc' = [pc EXCEPT ![c] = "settled"]
  /\ UNCHANGED <<locked, host, now, calls, config, frame, child>>

NextApi ==
  \/ \E c \in calls : Resolve(c)
  \/ \E c \in calls : IsAvailable(c)
  \/ \E c \in calls, outcome \in ExecOutcomes : GetVersion(c, outcome)

SpecApi == InitApi /\ [][NextApi]_vars

----------------------------------------------------------------------------
(* Two calls of compile in one process: each may begin at any time, so the  *)
(* two run one after the other or overlap                                   *)

\* the same text to a buffer and to a file
PairConfigs ==
  {Config([tex |-> "good", texFile |-> NoPath], NoPath, NoPath, TRUE, FALSE, NoPath),
   Config([tex |-> "good", texFile |-> NoPath], NoPath, OutFile, FALSE, FALSE, NoPath)}

PairFs == BaseFs @@ BundledFs @@ (TempDirPath :> Dir) @@ (OutDir :> Dir)

InitPair ==
  /\ fs \in {PairFs, PairFs @@ (OutFile :> File("old"))}
  /\ locked = {}
  /\ host \in Hosts
  /\ now = 0
  /\ calls = {1, 2}
  /\ pc = [c \in calls |-> "idle"]
  /\ config = [c \in calls |-> CHOOSE cfg \in Configs : TRUE]
  /\ frame = [c \in calls |-> NoFrame]
  /\ child = [c \in calls |-> NoChild]
  /\ settled = [c \in calls |-> Pending]
  /\ trace = [c \in calls |-> NoTrace]

NextPair ==
  \/ \E c \in calls, cfg \in PairConfigs, t \in 0..MaxClock :
       \* the calls are interchangeable: call 1 is the one that begins first
       /\ \A d \in calls : d < c => pc[d] # "idle"
       /\ Compile(c, cfg, t)
  \/ \E c \in calls : OnStdout(c, Chunk("out", ChunksOf(calls)))
  \/ \E c \in calls : OnStderr(c, Chunk("err", ChunksOf(calls)))
  \/ \E c \in calls : ChildWritesPdf(c)
  \/ \E c \in calls, code \in ExitCodes : OnClose(c, code)
  \/ \E c \in calls : OnError(c)
  \/ \E c \in calls : Resume(c)

SpecPair == InitPair /\ [][NextPair]_vars

----------------------------------------------------------------------------
(* Properties                                                               *)

Done(c) == pc[c] = "settled"

\* the file system stays a tree: every entry lies in a directory
FsWellFormed == WellFormed(fs)

NoSource(cfg) == cfg.tex = "" /\ cfg.texFile = NoPath

GeneratedSources == {join(TempDirPath, TempTexName(t)) : t \in 0..MaxClock}

\* C1: a compile request with neither tex nor texFile is rejected, and the
\* call spawns no subprocess.
C1_NoSourceRejects ==
  \A c \in calls :
    (Done(c) /\ NoSource(config[c]))
      => /\ settled[c].kind = "rejected"
         /\ trace[c].spawned = 0
         /\ child[c].state = "none"

\* a request without a source reached the compile method and was rejected there
C1_Witness ==
  \E c \in calls :
    /\ Done(c) /\ NoSource(config[c]) /\ trace[c].entered
    /\ settled[c] = Rejected("Either tex or texFile must be provided")

\* C2: when texFile names no existing file, the compile method rejects with
\* the file-not-found error, spawns no subprocess and writes no generated
\* source file.
C2_MissingFileRejects ==
  \A c \in calls :
    (Done(c) /\ trace[c].entered /\ trace[c].srcMissing)
      => /\ settled[c] = Rejected("LaTeX file not found")
         /\ trace[c].spawned = 0
         /\ trace[c].created = NoPath
         /\ \A g \in GeneratedSources : g \notin DOMAIN fs

\* a call whose texFile was missing has settled, also one that carried tex
C2_Witness ==
  \E c \in calls :
    /\ Done(c) /\ trace[c].entered /\ trace[c].srcMissing
    /\ config[c].texFile = MissingTex
    /\ settled[c].kind = "rejected"

\* C3: a call returns status 'success' only if its subprocess closed with
\* exit code 0 (before any error event) and the predicted PDF existed in
\* the --outdir directory when it closed.
C3_SuccessNeedsArtifact ==
  \A c \in calls :
    (Done(c) /\ settled[c].kind = "resolved" /\ settled[c].value.status = "success")
      => /\ trace[c].first = "close"
         /\ trace[c].exit = 0
         /\ trace[c].pdfAtExit

\* a success after the subprocess wrote its PDF
C3_Witness ==
  \E c \in calls :
    /\ Done(c) /\ settled[c].kind = "resolved"
    /\ settled[c].value.status = "success"
    /\ child[c].wrote

\* a subprocess that closed with 0 without a PDF, reported failed
C3_WitnessNoArtifact ==
  \E c \in calls :
    /\ Done(c) /\ trace[c].first = "close" /\ trace[c].exit = 0 /\ ~trace[c].pdfAtExit
    /\ settled[c].kind = "resolved" /\ settled[c].value.status = "failed"

\* C4: when the subprocess closes with a nonzero exit code (no error event
\* before it), compile resolves with status 'failed', that exit code, all
\* the text the subprocess wrote to stdout and stderr, and neither pdfPath
\* nor pdfBuffer.
C4_NonzeroExitFails ==
  \A c \in calls :
    (Done(c) /\ trace[c].first = "close" /\ trace[c].exit # 0)
      => /\ settled[c].kind = "resolved"
         /\ settled[c].value.status = "failed"
         /\ settled[c].value.exitCode = trace[c].exit
         /\ settled[c].value.stdout = trace[c].sentOut
         /\ settled[c].value.stderr = trace[c].sentErr
         /\ "pdfPath" \notin DOMAIN settled[c].value
         /\ "pdfBuffer" \notin DOMAIN settled[c].value

\* a nonzero exit after output on both streams, with a PDF on disk
C4_Witness ==
  \E c \in calls :
    /\ Done(c) /\ trace[c].first = "close" /\ trace[c].exit # 0
    /\ trace[c].sentOut # "" /\ trace[c].sentErr # ""
    /\ trace[c].pdfAtExit

\* the request is invalid: no source, or a source file that does not exist
InvalidRequest(c) == NoSource(config[c]) \/ trace[c].srcMissing

\* C5: compile rejects only when the request is invalid or no executable
\* could be resolved; in every other case it resolves with an outcome.
C5_RejectsOnlyInvalid ==
  \A c \in calls :
    (Done(c) /\ settled[c].kind = "rejected")
      => (InvalidRequest(c) \/ ~trace[c].entered)

\* C6: a success outcome carries exactly one of pdfPath and pdfBuffer,
\* pdfBuffer exactly when returnBuffer was set; every outcome carries as
\* stdout and stderr the text the subprocess wrote to each stream.
C6_OutcomeShape ==
  \A c \in calls :
    (Done(c) /\ settled[c].kind = "resolved")
      => LET v == settled[c].value IN
         /\ v.status \in {"success", "failed"}
         /\ v.status = "success" =>
              /\ ("pdfBuffer" \in DOMAIN v) # ("pdfPath" \in DOMAIN v)
              /\ ("pdfBuffer" \in DOMAIN v) <=> config[c].returnBuffer
         /\ {"stdout", "stderr"} \subseteq DOMAIN v
         /\ v.stdout = trace[c].sentOut
         /\ v.stderr = trace[c].sentErr

\* a success with a buffer after two chunks on stdout
C6_Witness ==
  \E c \in calls :
    /\ Done(c) /\ settled[c].kind = "resolved"
    /\ settled[c].value.status = "success"
    /\ "pdfBuffer" \in DOMAIN settled[c].value
    /\ settled[c].value.stdout = "out0;out1;"

\* C7 as stated: once a call that wrote a generated source file has settled,
\* that file no longer exists.
C7_TempSourceGone ==
  \A c \in calls :
    (Done(c) /\ trace[c].created # NoPath) => ~existsSync(fs, trace[c].created)

\* C7 amended: ... that file no longer exists, unless the operating system
\* refused its removal (the error of unlinkSync is caught and ignored).
C7_TempSourceGoneUnlessLocked ==
  \A c \in calls :
    (Done(c) /\ trace[c].created # NoPath)
      => (~existsSync(fs, trace[c].created) \/ trace[c].created \in locked)

\* a call with tex input whose subprocess ran, that rejected, and whose
\* generated source is gone
C7_Witness ==
  \E c \in calls :
    /\ Done(c) /\ trace[c].created # NoPath
    /\ ~existsSync(fs, trace[c].created)
    /\ settled[c].kind = "rejected"
    /\ trace[c].spawned = 1

\* C8: the finally block never changes the result of the call: what the
\* try block returned or threw is what the caller receives.
C8_FinallyKeepsResult ==
  \A c \in calls :
    (Done(c) /\ trace[c].entered) => settled[c] = trace[c].body

\* the subprocess of the call closed with 0 and its PDF was there
Compiled(c) == trace[c].first = "close" /\ trace[c].exit = 0 /\ trace[c].pdfAtExit

\* C9: when outputDir, or an ancestor of it, is a plain file as the call
\* begins, the call replaces the file by a directory and returns success
\* with the PDF inside it.
C9_OutputDirHealed ==
  \A c \in calls :
    (Done(c) /\ trace[c].blockedOut /\ config[c].outputFile = NoPath
       /\ ~config[c].returnBuffer /\ Compiled(c))
      => /\ settled[c].kind = "resolved"
         /\ settled[c].value.status = "success"
         /\ IsDirIn(fs, resolve(config[c].outputDir))
         /\ IsFileIn(fs, settled[c].value.pdfPath)
         /\ dirname(settled[c].value.pdfPath) = resolve(config[c].outputDir)

\* C10: when the temp directory path is a plain file as a call with tex
\* input begins, the call does not reject with a not-a-directory error and
\* the path is a directory afterwards.
C10_TempDirHealed ==
  \A c \in calls :
    (Done(c) /\ trace[c].entered /\ trace[c].blockedTemp
       /\ config[c].tex # "" /\ config[c].texFile = NoPath)
      => /\ settled[c] # Rejected("ENOTDIR")
         /\ IsDirIn(fs, TempDirPath)

Succeeded(c) ==
  Done(c) /\ settled[c].kind = "resolved" /\ settled[c].value.status = "success"

\* the files below dir that were not there when call c began
NewFilesIn(c, dir) ==
  {q \in (DOMAIN fs) \ trace[c].before : IsFileIn(fs, q) /\ startsWith(q, resolve(dir))}

\* C11: the --outdir of every subprocess is the temp directory; unless the
\* caller's output directory is the temp directory itself, the only file a
\* call ever adds below the caller's output directory is the PDF it
\* delivers there.
C11_OutdirIsScratch ==
  \A c \in calls :
    trace[c].spawned > 0
      => /\ child[c].cmd.outdir = TempDirPath
         /\ resolve(frame[c].outputDir) # TempDirPath
              => \A q \in NewFilesIn(c, frame[c].outputDir) :
                   /\ Succeeded(c)
                   /\ "pdfPath" \in DOMAIN settled[c].value
                   /\ q = settled[c].value.pdfPath

\* a text source compiled for an output directory of the caller: the
\* subprocess wrote its PDF, the call is still waiting, and nothing was
\* added to the output directory
C11_Witness ==
  \E c \in calls :
    /\ pc[c] = "awaiting" /\ child[c].wrote
    /\ config[c].tex # "" /\ config[c].texFile = NoPath
    /\ config[c].outputDir = OutDir
    /\ IsDirIn(fs, OutDir)
    /\ NewFilesIn(c, OutDir) = {}
    /\ existsSync(fs, getTempPdfPath(frame[c].tempTexPath, TempDirPath))

\* the final destination the request of call c describes
Destination(c) ==
  LET cfg == config[c]
      source == IF cfg.texFile # NoPath THEN cfg.texFile ELSE trace[c].created
      dir == IF cfg.outputDir # NoPath THEN cfg.outputDir
             ELSE IF cfg.texFile # NoPath THEN dirname(cfg.texFile)
             ELSE TempDirPath
  IN IF cfg.outputFile # NoPath THEN resolve(cfg.outputFile)
     ELSE join(dir, Name(basename(source), "pdf"))

C12_WitnessSourceDir ==
  \E c \in calls :
    /\ Succeeded(c) /\ ~config[c].returnBuffer
    /\ config[c].texFile = WorkTex /\ config[c].outputFile = NoPath
    /\ config[c].outputDir = NoPath
    /\ settled[c].value.pdfPath = join(WorkDir, Name("doc", "pdf"))

\* C13: while the subprocess of a call runs, the directory that contains
\* the final path exists; this includes the parent of outputFile.
C13_FinalDirExists ==
  \A c \in calls :
    pc[c] = "awaiting" => IsDirIn(fs, dirname(frame[c].finalPdfPath))

\* the text of the source of call c
SourceText(c) ==
  IF config[c].texFile # NoPath THEN readFileSync(fs, config[c].texFile).data
  ELSE config[c].tex

\* where the subprocess of call c writes its PDF
ScratchPdf(c) == getTempPdfPath(frame[c].tempTexPath, TempDirPath)

\* pdfPath names a file that holds what the subprocess writes for the
\* source of call c, and no copy is left in the temp directory
Delivered(c) ==
  LET pdfPath == settled[c].value.pdfPath IN
  /\ IsFileIn(fs, pdfPath)
  /\ fs[pdfPath].data = Pdf(SourceText(c))
  /\ ScratchPdf(c) # pdfPath => ~existsSync(fs, ScratchPdf(c))

\* C14 as stated: after a success without returnBuffer, pdfPath names a file
\* holding the PDF this call's subprocess produced, whatever was at that
\* path before is replaced, and the PDF of the temp directory is gone when
\* its path differs from pdfPath.
C14_DeliveredArtifact ==
  \A c \in calls :
    (Succeeded(c) /\ ~config[c].returnBuffer) => Delivered(c)

\* C14 amended: ... provided the subprocess wrote its PDF during the call; a
\* PDF that was already at the predicted path of the temp directory is
\* otherwise delivered as it is.
C14_DeliveredWhenWritten ==
  \A c \in calls :
    (Succeeded(c) /\ ~config[c].returnBuffer /\ child[c].wrote) => Delivered(c)

\* a success that replaced an older file at outputFile
C14_Witness ==
  \E c \in calls :
    /\ Succeeded(c) /\ ~config[c].returnBuffer /\ child[c].wrote
    /\ config[c].outputFile = OutFile /\ OutFile \in trace[c].before
    /\ fs[OutFile].data = Pdf("good")
    /\ ~existsSync(fs, ScratchPdf(c))

\* C15: after a success with returnBuffer, the PDF of the subprocess is no
\* longer in the temp directory, unless the caller asked, through
\* outputFile or outputDir, for a final path equal to its path.
C15_BufferLeavesNoPdf ==
  \A c \in calls :
    (Succeeded(c) /\ config[c].returnBuffer)
      => \/ ~existsSync(fs, ScratchPdf(c))
         \/ /\ config[c].outputFile # NoPath \/ config[c].outputDir # NoPath
            /\ Destination(c) = ScratchPdf(c)

\* C16: for the same text, the pdfBuffer a call with returnBuffer returns
\* equals the content of the file a call with outputFile delivers: neither
\* way of delivery alters or truncates what the subprocess wrote.
C16_BufferEqualsFile ==
  \A a \in calls, b \in calls :
    (/\ Succeeded(a) /\ config[a].returnBuffer
     /\ Succeeded(b) /\ ~config[b].returnBuffer /\ config[b].outputFile # NoPath
     /\ config[a].tex = config[b].tex /\ config[a].texFile = NoPath
     /\ config[b].texFile = NoPath)
      => /\ IsFileIn(fs, settled[b].value.pdfPath)
         /\ settled[a].value.pdfBuffer = fs[settled[b].value.pdfPath].data
         /\ settled[a].value.pdfBuffer = Pdf(config[a].tex)

\* both calls succeeded, one to a buffer and one to a file, each after its
\* own subprocess wrote a PDF
C16_Witness ==
  \E a \in calls, b \in calls :
    /\ Succeeded(a) /\ config[a].returnBuffer /\ child[a].wrote
    /\ Succeeded(b) /\ config[b].outputFile = OutFile /\ child[b].wrote
    /\ frame[a].tempTexPath # frame[b].tempTexPath
    /\ fs[OutFile].data = settled[a].value.pdfBuffer

Failed(c) ==
  Done(c) /\ settled[c].kind = "resolved" /\ settled[c].value.status = "failed"

\* the subprocess of call c closed with exit code 0 and left no PDF
ExitedWithoutPdf(c) ==
  trace[c].first = "close" /\ trace[c].exit = 0 /\ ~trace[c].pdfAtExit

\* C17: when the subprocess closes with exit code 0 and the predicted PDF
\* is absent, compile returns status 'failed' with the error 'PDF file was
\* not generated' and with the exit code of the subprocess, which is
\* available: 0.
C17_MissingArtifactExitCode ==
  \A c \in calls :
    (Done(c) /\ ExitedWithoutPdf(c))
      => /\ Failed(c)
         /\ settled[c].value.error = "PDF file was not generated"
         /\ settled[c].value.exitCode = trace[c].exit

\* C18: a failed outcome of a call whose subprocess did not exit with 0
\* leaving no PDF has an exitCode other than 0; a failed outcome of a call
\* whose subprocess did so names the missing PDF in its error field.
C18_ZeroOnlyForMissingArtifact ==
  \A c \in calls :
    Failed(c)
      => IF ExitedWithoutPdf(c)
           THEN /\ "error" \in DOMAIN settled[c].value
                /\ settled[c].value.error = "PDF file was not generated"
           ELSE settled[c].value.exitCode # 0

\* a failed outcome after an error event of the subprocess
C18_Witness ==
  \E c \in calls :
    /\ Failed(c) /\ trace[c].first = "error"
    /\ settled[c].value.exitCode = -1

\* a failed outcome for a subprocess that exited with 0 and left no PDF
C18_WitnessMissingArtifact ==
  \E c \in calls :
    /\ Failed(c) /\ ExitedWithoutPdf(c)
    /\ settled[c].value.error = "PDF file was not generated"

\* call c has been through the constructor
Began(c) == pc[c] # "idle"

\* C19: when tectonicPath names an existing file and a bundled binary is
\* present too, the executable of the command line is tectonicPath.
C19_OverrideUsed ==
  \A c \in calls :
    (/\ trace[c].spawned > 0
     /\ config[c].tectonicPath # NoPath /\ existsSync(fs, config[c].tectonicPath)
     /\ resolveBundledTectonic(fs, locked, host).path # NoPath)
      => /\ child[c].cmd.exe = config[c].tectonicPath
         /\ child[c].cmd.exe # resolveBundledTectonic(fs, locked, host).path

\* a subprocess started from the override although a bundled binary exists
C19_Witness ==
  \E c \in calls :
    /\ trace[c].spawned > 0
    /\ config[c].tectonicPath = CustomExe /\ IsFileIn(fs, CustomExe)
    /\ IsFileIn(fs, BundledExe)
    /\ child[c].cmd.exe = CustomExe

\* C20: when tectonicPath names nothing that exists, it is not used: the
\* executable that is spawned, and that isAvailable tests, is the one the
\* bundled-binary and PATH strategies find, and the constructor throws only
\* when they find none.
C20_MissingOverrideSkipped ==
  \A c \in calls :
    (Began(c) /\ config[c].tectonicPath # NoPath
       /\ ~existsSync(fs, config[c].tectonicPath))
      => LET found == resolveTectonicExecutable(fs, locked, host, config[c]).path IN
         /\ trace[c].spawned > 0 => child[c].cmd.exe = found
         /\ isAvailable(fs, locked, host, config[c]) = (found # NoPath)
         /\ ~trace[c].entered <=> found = NoPath

\* the strategies of the resolver, in their order: each is the set of paths
\* the strategy accepts, empty when it fails
Strategies(c) ==
  LET h == host
      exeName == getExecutableName(h.platform)
      arch == NormalizeArch(h.arch)
      other == IF arch = "x64" THEN "arm64" ELSE "x64"
      pkgName == getRuntimePackageName(h.platform, arch)
      override == config[c].tectonicPath
      primary == join(BinDir(h.platform, arch), exeName)
      alt == join(BinDir(h.platform, other), exeName)
      scanned == {join(BinDir(h.platform, a), exeName) : a \in BinSuffixes \cup {h.arch}}
      pkgDir == IF h.helper # NoPath THEN h.helper
                ELSE IF pkgName # ""
                        /\ existsSync(fs, join(HelperDir(pkgName), Name("package", "json")))
                  THEN HelperDir(pkgName)
                ELSE NoPath
      helperExe == join(join(pkgDir, Name("bin", "")), exeName)
  IN
  << IF override # NoPath /\ existsSync(fs, override) THEN {resolve(override)} ELSE {},
     IF existsSync(fs, primary) THEN {primary} ELSE {},
     IF h.platform = "darwin" /\ existsSync(fs, alt) THEN {alt} ELSE {},
     {q \in scanned : existsSync(fs, q)},
     IF pkgName # "" /\ pkgDir # NoPath /\ existsSync(fs, helperExe) THEN {helperExe} ELSE {},
     IF h.which # NoPath /\ existsSync(fs, h.which) THEN {h.which} ELSE {} >>

\* the strategies that succeed
Succeeding(c) == {k \in 1..Len(Strategies(c)) : Strategies(c)[k] # {}}

\* the first strategy that succeeds
FirstStrategy(c) == CHOOSE k \in Succeeding(c) : \A j \in Succeeding(c) : k <= j

ResolvedPath(c) ==
  Done(c) /\ settled[c].kind = "resolved" /\ "op" \in DOMAIN settled[c].value
  /\ settled[c].value.op = "resolve"

\* C21: resolveTectonicExecutable returns what the first succeeding strategy
\* finds, in the order override, bin/<platform>-<arch>, on darwin the other
\* architecture, any bin/<platform>-* directory, the helper package, the
\* PATH; it returns null exactly when every strategy fails.
C21_FirstStrategyWins ==
  \A c \in calls :
    ResolvedPath(c)
      => IF Succeeding(c) = {} THEN settled[c].value.path = NoPath
         ELSE settled[c].value.path \in Strategies(c)[FirstStrategy(c)]

\* the helper package was chosen although the PATH has an executable too
C21_Witness ==
  \E c \in calls :
    /\ ResolvedPath(c) /\ Succeeding(c) = {5, 6}
    /\ settled[c].value.path # NoPath

\* nothing is installed and the resolver returned null
C21_WitnessNone ==
  \E c \in calls :
    ResolvedPath(c) /\ Succeeding(c) = {} /\ settled[c].value.path = NoPath

\* C22: when no strategy of the resolver yields an executable, compile
\* rejects with the error of the constructor, creates no file and spawns no
\* subprocess.
C22_NoExecutableFailsFast ==
  \A c \in calls :
    (Began(c) /\ Succeeding(c) = {})
      => /\ settled[c] = Rejected("Tectonic executable not found")
         /\ trace[c].spawned = 0
         /\ DOMAIN fs = trace[c].before

Answered(c, op) ==
  Done(c) /\ settled[c].kind = "resolved" /\ "op" \in DOMAIN settled[c].value
  /\ settled[c].value.op = op

\* C23: isAvailable returns true exactly when a strategy of the resolver
\* succeeds for the options (the path it yields then exists).
C23_AvailableIffResolvable ==
  \A c \in calls :
    Answered(c, "isAvailable")
      => (settled[c].value.available <=> Succeeding(c) # {})

\* a version token was parsed from the output the callback looked at
TokenParsed(outcome) ==
  ~outcome.error /\ VersionMatches(JsOrText(outcome.stdout, outcome.stderr)) # {}

\* C24 as stated: getVersion resolves, and with a string only when a version
\* token was parsed from the output: with null when no executable is
\* resolved, when the command fails, and when the output has no version
\* token.
C24_VersionOrNull ==
  \A c \in calls :
    Answered(c, "getVersion")
      => LET v == settled[c].value IN
         /\ (Succeeding(c) = {} \/ v.outcome.error \/ ~TokenParsed(v.outcome))
              => v.version.isNull
         /\ ~v.version.isNull
              => /\ TokenParsed(v.outcome)
                 /\ IsVersionToken(v.version.version)

\* C24 amended: ... with null when no executable is resolved, when the
\* command fails, and when the output has neither a version token nor the
\* word "tectonic"; with "unknown" when the output has the word but no
\* token; with the token otherwise.
C24_VersionUnknownOrNull ==
  \A c \in calls :
    Answered(c, "getVersion")
      => LET v == settled[c].value
             output == JsOrText(v.outcome.stdout, v.outcome.stderr)
         IN
         IF Succeeding(c) = {} \/ v.outcome.error THEN v.version.isNull
         ELSE IF TokenParsed(v.outcome)
           THEN ~v.version.isNull /\ IsVersionToken(v.version.version)
                /\ \E i \in VersionMatches(output) : v.version.version = output[i + 1]
         ELSE IF IncludesTectonic(output)
           THEN v.version = [isNull |-> FALSE, version |-> "unknown"]
         ELSE v.version.isNull

\* a version parsed from stderr because stdout was empty
C24_Witness ==
  \E c \in calls :
    /\ Answered(c, "getVersion")
    /\ settled[c].value.outcome.stdout = <<>>
    /\ settled[c].value.version = [isNull |-> FALSE, version |-> "2.1"]

\* null for an output without a token and without the lower-case word
C24_WitnessNull ==
  \E c \in calls :
    /\ Answered(c, "getVersion") /\ ~settled[c].value.outcome.error
    /\ settled[c].value.outcome.stdout = <<"Tectonic", "usage">>
    /\ settled[c].value.version.isNull

\* C25: when the subprocess raises an error event before it closes, compile
\* resolves with status 'failed', exit code -1, the message of the error
\* and the text accumulated on stdout and stderr; it does not reject.
C25_LaunchErrorFails ==
  \A c \in calls :
    (Done(c) /\ trace[c].first = "error")
      => settled[c] = Resolved([status |-> "failed", exitCode |-> -1,
                                error |-> "spawn failed",
                                stdout |-> trace[c].sentOut,
                                stderr |-> trace[c].sentErr])

\* a failed outcome after an error event that followed a chunk on each stream
C25_Witness ==
  \E c \in calls :
    /\ Done(c) /\ trace[c].first = "error"
    /\ trace[c].sentOut # "" /\ trace[c].sentErr # ""
    /\ settled[c].kind = "resolved" /\ settled[c].value.exitCode = -1

\* the concatenation of a sequence of chunks
RECURSIVE Flatten(_)
Flatten(chunks) ==
  IF chunks = <<>> THEN "" ELSE Head(chunks) \o Flatten(Tail(chunks))

\* C26: the stdout and stderr of an outcome are the chunks the subprocess
\* emitted on that stream until the event that produced the outcome,
\* concatenated in the order of receipt, with or without an observer; an
\* observer is called once for each chunk, in that order, with that chunk.
C26_StreamsInOrder ==
  \A c \in calls :
    /\ child[c].stdout = Flatten(trace[c].chunksOut \o trace[c].lateOut)
    /\ child[c].stderr = Flatten(trace[c].chunksErr \o trace[c].lateErr)
    /\ trace[c].seenOut = IF config[c].onStdout
                            THEN trace[c].chunksOut \o trace[c].lateOut ELSE <<>>
    /\ trace[c].seenErr = IF config[c].onStderr
                            THEN trace[c].chunksErr \o trace[c].lateErr ELSE <<>>
    /\ (Done(c) /\ settled[c].kind = "resolved")
         => /\ settled[c].value.stdout = Flatten(trace[c].chunksOut)
            /\ settled[c].value.stderr = Flatten(trace[c].chunksErr)

\* an outcome after two chunks on stdout, seen by an observer
C26_Witness ==
  \E c \in calls :
    /\ Done(c) /\ settled[c].kind = "resolved" /\ config[c].onStdout
    /\ Len(trace[c].chunksOut) = 2
    /\ trace[c].seenOut = trace[c].chunksOut
    /\ settled[c].value.stdout = Flatten(trace[c].chunksOut)

\* an outcome with the same text for a request without observers
C26_WitnessNoObserver ==
  \E c \in calls :
    /\ Done(c) /\ settled[c].kind = "resolved" /\ ~config[c].onStdout
    /\ Len(trace[c].chunksOut) = 2 /\ trace[c].seenOut = <<>>
    /\ settled[c].value.stdout = Flatten(trace[c].chunksOut)

\* two different calls that both began
Concurrent(a, b) == a # b /\ Began(a) /\ Began(b)

\* C27: two calls with tex input write their generated source to different
\* paths, and the generated source of a call exists as long as its
\* subprocess runs.
C27_UniqueGeneratedSource ==
  \A a \in calls, b \in calls :
    (Concurrent(a, b) /\ trace[a].created # NoPath /\ trace[b].created # NoPath)
      => /\ trace[a].created # trace[b].created
         /\ (pc[b] = "awaiting" /\ child[b].state = "running")
              => existsSync(fs, trace[b].created)

\* C28: two calls never have the same PDF path in the temp directory, and
\* a call whose subprocess wrote its PDF and closed with 0 does not report
\* that the PDF was not generated.
C28_NoSharedArtifact ==
  /\ \A a \in calls, b \in calls :
       (Concurrent(a, b) /\ trace[a].spawned > 0 /\ trace[b].spawned > 0)
         => ScratchPdf(a) # ScratchPdf(b)
  /\ \A c \in calls :
       (Done(c) /\ child[c].wrote /\ trace[c].first = "close" /\ trace[c].exit = 0)
         => ~(Failed(c) /\ settled[c].value.error = "PDF file was not generated")

C29_WitnessRejected ==
  \E c \in calls :
    /\ Done(c) /\ settled[c].kind = "rejected" /\ trace[c].spawned > 0
    /\ config[c].texFile = ScratchTex /\ fs[ScratchTex] = File("good")

\* C30: the steps of a call happen in order: the source file exists from
\* the spawn of the subprocess until the call resumes (a generated source
\* is removed only after delivery); the try block looks at the PDF, and the
\* call settles, only after the subprocess closed or raised an error.
C30_StepsInOrder ==
  \A c \in calls :
    /\ pc[c] = "awaiting"
         => /\ trace[c].spawned = 1
            /\ existsSync(fs, frame[c].tempTexPath)
            /\ trace[c].body = Pending /\ settled[c] = Pending
    /\ (trace[c].spawned > 0 /\ (trace[c].body # Pending \/ Done(c)))
         => /\ child[c].resolved
            /\ trace[c].first \in {"close", "error"}
    /\ (trace[c].created # NoPath /\ ~existsSync(fs, trace[c].created))
         => Done(c)

\* a call with tex input that waits for its subprocess, which has written
\* its PDF: the generated source and the PDF are both in the temp directory
C30_Witness ==
  \E c \in calls :
    /\ pc[c] = "awaiting" /\ child[c].wrote /\ ~child[c].resolved
    /\ trace[c].created # NoPath /\ existsSync(fs, trace[c].created)
    /\ existsSync(fs, ScratchPdf(c))

\* the same call settled: the generated source is gone
C30_WitnessSettled ==
  \E c \in calls :
    /\ Succeeded(c) /\ child[c].wrote /\ trace[c].first = "close"
    /\ trace[c].created # NoPath /\ ~existsSync(fs, trace[c].created)

\* C31: getTempDir is idempotent: once a call has been through it, the temp
\* path is a directory, and another call of getTempDir returns the same
\* path, throws nothing and leaves the file system as it is.
C31_TempDirIdempotent ==
  \A c \in calls :
    trace[c].entered
      => /\ IsDirIn(fs, TempDirPath)
         /\ getTempDir(fs) = [err |-> "", path |-> TempDirPath, fs |-> fs]

\* C32: when both tex and texFile are given, texFile is compiled: no
\* generated source is written, the subprocess is given texFile, the PDF is
\* named after texFile, and texFile is still there when the call settles.
C32_TexFileWins ==
  \A c \in calls :
    (trace[c].entered /\ config[c].tex # "" /\ config[c].texFile # NoPath)
      => /\ trace[c].created = NoPath
         /\ \A g \in GeneratedSources : g \notin DOMAIN fs
         /\ trace[c].spawned > 0
              => /\ child[c].cmd.texPath = config[c].texFile
                 /\ basename(frame[c].finalPdfPath) = basename(config[c].texFile)
         /\ (Succeeded(c) /\ ~config[c].returnBuffer)
              => basename(settled[c].value.pdfPath) = basename(config[c].texFile)
         /\ existsSync(fs, config[c].texFile)

\* a success for a request with both tex and texFile
C32_Witness ==
  \E c \in calls :
    /\ Succeeded(c) /\ ~config[c].returnBuffer
    /\ config[c].tex # "" /\ config[c].texFile = WorkTex
    /\ settled[c].value.pdfPath = join(WorkDir, Name("doc", "pdf"))
    /\ existsSync(fs, WorkTex)

\* C36: when a call settles otherwise than with a success, a file that was
\* at its final destination when the call began is still there, with the
\* content it had.
C36_DestinationKept ==
  \A c \in calls :
    (Done(c) /\ ~Succeeded(c) /\ trace[c].destWas # <<>>)
      => /\ IsFileIn(fs, frame[c].finalPdfPath)
         /\ fs[frame[c].finalPdfPath].data = trace[c].destWas[1]

\* C35: the result of executeCompilation is the one made by the first of the
\* close and error events, from the text accumulated until then, and the
\* outcome of a settled call is that result whatever fires or arrives later.
C35_FirstEventDecides ==
  \A c \in calls :
    LET out == Flatten(trace[c].chunksOut)
        err == Flatten(trace[c].chunksErr)
        byError == ErrorResult("spawn failed", out, err)
        byClose == CloseResult(trace[c].exit, out, err)
    IN
    /\ child[c].resolved <=> trace[c].first \in {"close", "error"}
    /\ trace[c].first = "error"
         => /\ child[c].result = byError
            /\ Done(c) => settled[c] = Resolved(byError)
    /\ trace[c].first = "close"
         => /\ child[c].result = byClose
            /\ (Done(c) /\ trace[c].exit # 0) => settled[c] = Resolved(byClose)
            /\ (Done(c) /\ settled[c].kind = "resolved")
                 => /\ settled[c].value.stdout = out
                    /\ settled[c].value.stderr = err
                    /\ settled[c].value.status = "success" => trace[c].exit = 0

\* an error event settled the call; a chunk and then the close event with
\* exit code 0 came afterwards, and the outcome is still the failure
C35_Witness ==
  \E c \in calls :
    /\ Done(c) /\ trace[c].first = "error"
    /\ trace[c].lateOut # <<>> /\ trace[c].lateEvents = <<"close">>
    /\ child[c].state = "closed" /\ child[c].wrote
    /\ child[c].stdout # settled[c].value.stdout
    /\ settled[c].value.status = "failed" /\ settled[c].value.exitCode = -1

\* a close event settled the call and an error event fired afterwards
C35_WitnessLateError ==
  \E c \in calls :
    /\ Succeeded(c) /\ trace[c].first = "close"
    /\ trace[c].lateEvents = <<"error">>

----------------------------------------------------------------------------
(* Two calls with different sources and different destinations             *)

ApartConfigs ==
  {Config([tex |-> "other", texFile |-> NoPath], NoPath, NoPath, TRUE, FALSE, NoPath),
   Config([tex |-> "", texFile |-> WorkTex], NoPath, OutFile, FALSE, FALSE, NoPath)}

ApartFs == PairFs @@ (OutFile :> File("old"))

InitApart ==
  /\ fs = ApartFs
  /\ locked = {}
  /\ host \in Hosts
  /\ now = 0
  /\ calls = {1, 2}
  /\ pc = [c \in calls |-> "idle"]
  /\ config = [c \in calls |-> CHOOSE cfg \in Configs : TRUE]
  /\ frame = [c \in calls |-> NoFrame]
  /\ child = [c \in calls |-> NoChild]
  /\ settled = [c \in calls |-> Pending]
  /\ trace = [c \in calls |-> NoTrace]

NextApart ==
  \/ \E c \in calls, cfg \in ApartConfigs, t \in 0..MaxClock :
       /\ \A d \in calls : d < c => pc[d] # "idle"
       /\ Compile(c, cfg, t)
  \/ \E c \in calls : OnStdout(c, Chunk("out", ChunksOf(calls)))
  \/ \E c \in calls : OnStderr(c, Chunk("err", ChunksOf(calls)))
  \/ \E c \in calls : ChildWritesPdf(c)
  \/ \E c \in calls, code \in ExitCodes : OnClose(c, code)
  \/ \E c \in calls : OnError(c)
  \/ \E c \in calls : Resume(c)

SpecApart == InitApart /\ [][NextApart]_vars

\* the sources of the two calls have different base names and their final
\* destinations differ
Apart(c, d) ==
  /\ c # d /\ trace[c].entered /\ trace[d].entered
  /\ frame[c].tempTexPath # NoPath /\ frame[d].tempTexPath # NoPath
  /\ basename(frame[c].tempTexPath) # basename(frame[d].tempTexPath)
  /\ frame[c].finalPdfPath # frame[d].finalPdfPath

\* what executeCompilation gives call c, from what its own subprocess did
OwnResult(c) ==
  IF trace[c].first = "error"
    THEN ErrorResult("spawn failed", Flatten(trace[c].chunksOut), Flatten(trace[c].chunksErr))
    ELSE CloseResult(trace[c].exit, Flatten(trace[c].chunksOut), Flatten(trace[c].chunksErr))

\* call c run alone on the initial file system, with a subprocess that does
\* what the subprocess of c did: the outcome, and the file system afterwards
Alone(c) ==
  LET cfg == config[c]
      t == IF trace[c].created = NoPath THEN 0
           ELSE CHOOSE k \in 0..MaxClock : join(TempDirPath, TempTexName(k)) = trace[c].created
      ctor == Constructor(ApartFs, {}, host, cfg)
      fr == CompileEntry(ctor.fs, t, cfg)
      pdf == getTempPdfPath(fr.tempTexPath, fr.compileOutputDir)
      src == readFileSync(fr.fs, fr.tempTexPath)
      f1 == IF child[c].wrote THEN writeFileSync(fr.fs, pdf, Pdf(src.data)).fs ELSE fr.fs
      out == HandleOutput(f1, {}, cfg, fr, OwnResult(c))
      fin == Finally(out.fs, {}, cfg, fr, OwnResult(c))
  IN [outcome |-> Settle(out.threw, out.value, fin.threw), fs |-> fin.fs]

----------------------------------------------------------------------------
(* One call whose subprocess is bound to end: the event loop runs the      *)
(* continuation of a resolved await, and the subprocess sooner or later    *)
(* emits its close or its error event                                      *)

LiveConfigs ==
  {Config(s, d, o, b, FALSE, NoPath) :
     s \in Sources, d \in {NoPath, OutDir}, o \in {NoPath, OutFile}, b \in BOOLEAN}

InitLive ==
  /\ fs \in {BaseFs @@ BundledFs, PairFs @@ (OutFile :> File("old"))}
  /\ locked = {}
  /\ host \in Hosts
  /\ now = 0
  /\ calls = {1}
  /\ pc = [c \in calls |-> "idle"]
  /\ config = [c \in calls |-> CHOOSE cfg \in Configs : TRUE]
  /\ frame = [c \in calls |-> NoFrame]
  /\ child = [c \in calls |-> NoChild]
  /\ settled = [c \in calls |-> Pending]
  /\ trace = [c \in calls |-> NoTrace]

\* the first close or error event of the subprocess of call c
ChildEnds(c) ==
  /\ ~child[c].resolved
  /\ \/ \E code \in ExitCodes : OnClose(c, code)
     \/ OnError(c)

NextLive ==
  \/ \E c \in calls, cfg \in LiveConfigs, t \in 0..MaxClock : Compile(c, cfg, t)
  \/ \E c \in calls : OnStdout(c, Chunk("out", ChunksOf(calls)))
  \/ \E c \in calls : OnStderr(c, Chunk("err", ChunksOf(calls)))
  \/ \E c \in calls : ChildWritesPdf(c)
  \/ \E c \in calls, code \in ExitCodes : OnClose(c, code)
  \/ \E c \in calls : OnError(c)
  \/ \E c \in calls : Resume(c)

SpecLive ==
  /\ InitLive /\ [][NextLive]_vars
  /\ WF_vars(\E c \in {1} : Resume(c))
  /\ WF_vars(\E c \in {1} : ChildEnds(c))

\* C34: a call that has started its subprocess and awaits it settles in the
\* end, given that the subprocess emits a close or an error event in the
\* end; every other call settles in the step that begins it.
C34_EventuallySettles ==
  /\ [](\A c \in {1} : pc[c] \in {"idle", "awaiting", "settled"})
  /\ \A c \in {1} : (pc[c] = "awaiting") ~> (pc[c] = "settled")

\* a call that awaited its subprocess, saw it close, and settled
C34_Witness ==
  \E c \in calls :
    /\ Done(c) /\ trace[c].spawned = 1 /\ child[c].resolved
    /\ trace[c].first = "close" /\ trace[c].exit = 1
    /\ trace[c].chunksErr # <<>>

----------------------------------------------------------------------------
(* verifyTectonic(tectonicPath): spawn `--version`, and resolve a promise  *)
(* from the close event, the error event or a timer of five seconds        *)

\* the code of a close event of a child that a signal ended: null
NullCode == -1

VerifyCodes == {0, 1, NullCode}

\* resolve(true) for every close event
CloseVerdict_Always(code) == TRUE

\* child.on('close'): resolve(code === 0)
CloseVerdict(code) == code = 0

Verdict(ok) == Resolved([op |-> "verifyTectonic", ok |-> ok])

\* resolve(value) of the promise verifyTectonic returns: the first one
\* settles it, the later ones do nothing
VerifyResolve(c, ok) ==
  IF child[c].resolved
    THEN UNCHANGED <<settled, pc>>
    ELSE /\ settled' = [settled EXCEPT ![c] = Verdict(ok)]
         /\ pc' = [pc EXCEPT ![c] = "settled"]

InitVerify ==
  /\ fs \in {BaseFs, BaseFs @@ (MissingExe :> File("exe"))}
  /\ locked = {}
  /\ host \in Hosts
  /\ now = 0
  /\ calls = {1, 2}
  /\ pc = [c \in calls |-> "idle"]
  /\ config \in [calls -> {Options(x) : x \in {NoPath, CustomExe, MissingExe}}]
  /\ frame = [c \in calls |-> NoFrame]
  /\ child = [c \in calls |-> NoChild]
  /\ settled = [c \in calls |-> Pending]
  /\ trace = [c \in calls |-> NoTrace]

\* the executor of the promise: spawn throws for a path that is no string,
\* and may throw for any other (the catch resolves false); otherwise the
\* handlers are attached and the timer is set
VerifyTectonic(c, throws) ==
  LET tectonicPath == config[c].tectonicPath IN
  /\ pc[c] = "idle"
  /\ tectonicPath = NoPath => throws
  /\ IF throws THEN
       /\ VerifyResolve(c, FALSE)
       /\ child' = [child EXCEPT ![c].resolved = TRUE, ![c].result = Verdict(FALSE)]
       /\ trace' = [trace EXCEPT ![c].entered = TRUE, ![c].first = "throw"]
     ELSE
       /\ pc' = [pc EXCEPT ![c] = "awaiting"]
       /\ child' = [child EXCEPT ![c] =
              [NoChild EXCEPT !.state = "running", !.timer = "set",
                              !.cmd = [exe |-> tectonicPath, texPath |-> NoPath,
                                       outdir |-> NoPath]]]
       /\ trace' = [trace EXCEPT ![c].entered = TRUE, ![c].spawned = @ + 1]
       /\ UNCHANGED settled
  /\ UNCHANGED <<fs, locked, host, now, calls, config, frame>>

\* child.stdout.on('data')
VerifyData(c) ==
  /\ child[c].state \in {"running", "errored", "killed"}
  /\ existsSync(fs, child[c].cmd.exe)
  /\ ~child[c].hasOutput
  /\ child' = [child EXCEPT ![c].hasOutput = TRUE]
  /\ UNCHANGED <<fs, locked, host, now, calls, pc, config, frame, settled, trace>>

\* child.on('close'): a child that was never started closes only after its
\* error event, and not with exit code 0
VerifyClose(c, code) ==
  LET ch == child[c] IN
  /\ ch.state \in {"running", "errored", "killed"}
  /\ ~existsSync(fs, ch.cmd.exe) => (ch.state = "errored" /\ code # 0)
  /\ VerifyResolve(c, CloseVerdict(code))
  /\ child' = [child EXCEPT ![c] =
         [ResolveOnce(ch, Verdict(CloseVerdict(code))) EXCEPT !.state = "closed"]]
  /\ trace' = [trace EXCEPT ![c].first = IF ch.resolved THEN @ ELSE "close",
                            ![c].exit = IF ch.resolved THEN @ ELSE code,
                            ![c].lateEvents = IF ch.resolved THEN Append(@, "close") ELSE @]
  /\ UNCHANGED <<fs, locked, host, now, calls, config, frame>>

\* child.on('error')
VerifyError(c) ==
  LET ch == child[c] IN
  /\ ch.state \in {"running", "killed"}
  /\ VerifyResolve(c, FALSE)
  /\ child' = [child EXCEPT ![c] =
         [ResolveOnce(ch, Verdict(FALSE)) EXCEPT !.state = "errored"]]
  /\ trace' = [trace EXCEPT ![c].first = IF ch.resolved THEN @ ELSE "error",
                            ![c].lateEvents = IF ch.resolved THEN Append(@, "error") ELSE @]
  /\ UNCHANGED <<fs, locked, host, now, calls, config, frame>>

\* the callback of setTimeout: child.kill(), then resolve(false); the timer
\* is never cleared, so it also fires after the promise is resolved
VerifyTimeout(c) ==
  LET ch == child[c] IN
  /\ ch.timer = "set"
  /\ VerifyResolve(c, FALSE)
  /\ child' = [child EXCEPT ![c] =
         [ResolveOnce(ch, Verdict(FALSE)) EXCEPT
            !.timer = "fired",
            !.state = IF ch.state = "running" THEN "killed" ELSE @]]
  /\ trace' = [trace EXCEPT ![c].first = IF ch.resolved THEN @ ELSE "timeout",
                            ![c].lateEvents = IF ch.resolved THEN Append(@, "timeout") ELSE @]
  /\ UNCHANGED <<fs, locked, host, now, calls, config, frame>>

NextVerify ==
  \/ \E c \in calls, throws \in BOOLEAN : VerifyTectonic(c, throws)
  \/ \E c \in calls : VerifyData(c)
  \/ \E c \in calls, code \in VerifyCodes : VerifyClose(c, code)
  \/ \E c \in calls : VerifyError(c)
  \/ \E c \in calls : VerifyTimeout(c)

\* a timer that is set fires
SpecVerify ==
  InitVerify /\ [][NextVerify]_vars /\ \A c \in {1, 2} : WF_vars(VerifyTimeout(c))

\* the promise of call c is resolved, and with true exactly when the first
\* thing that happened was a close event with exit code 0
VerifiedRight(c) ==
  /\ settled[c].kind # "rejected"
  /\ child[c].resolved <=> Done(c)
  /\ Done(c) =>
       /\ settled[c] = Verdict(trace[c].first = "close" /\ trace[c].exit = 0)
       /\ settled[c] = child[c].result
       /\ trace[c].first \in {"throw", "close", "error", "timeout"}

\* C37: verifyTectonic never rejects; it resolves true exactly when the
\* close event with exit code 0 came before the timer fired and before any
\* error event, and false otherwise; what fires after that changes nothing;
\* and a call that has started its child is resolved in the end.
C37_VerifyResolves ==
  /\ [](\A c \in {1, 2} : VerifiedRight(c))
  /\ \A c \in {1, 2} : (pc[c] = "awaiting") ~> (pc[c] = "settled")

\* true from a close with exit code 0, and afterwards the timer fired
C37_Witness ==
  \E c \in calls :
    /\ settled[c] = Verdict(TRUE)
    /\ trace[c].first = "close" /\ trace[c].lateEvents = <<"timeout">>
    /\ child[c].timer = "fired"

\* false from the timer, and afterwards the killed child closed
C37_WitnessTimeout ==
  \E c \in calls :
    /\ settled[c] = Verdict(FALSE)
    /\ trace[c].first = "timeout" /\ trace[c].lateEvents = <<"close">>

\* false from the error event of a missing executable, and afterwards a close
C37_WitnessError ==
  \E c \in calls :
    /\ settled[c] = Verdict(FALSE) /\ ~existsSync(fs, child[c].cmd.exe)
    /\ trace[c].first = "error" /\ "close" \in {trace[c].lateEvents[i] : i \in DOMAIN trace[c].lateEvents}

====
